---- MODULE Spec2Model ----
(***************************************************************************)
(* Exercise 04, the JSON Schema $ref resolver: parseJsonPointer,           *)
(* resolvePointer and the recursive resolution resolveRefsRecursive, as    *)
(* the exercise file gives them (HINT 1 .. HINT 7), run as a machine with  *)
(* an explicit call stack over a document held in a heap.                  *)
(*                                                                         *)
(* A JavaScript string is a sequence of one-character strings, so that     *)
(* startsWith, slice, split and replace are computed and not assumed.      *)
(***************************************************************************)
EXTENDS Integers, Sequences, FiniteSets, TLC

(***************************************************************************)
(* JSON values.  An object is the sequence of its entries in insertion     *)
(* order (the order Object.entries walks), with pairwise different keys.   *)
(***************************************************************************)
Undef == [t |-> "undef"]

Null == [t |-> "null"]

Str(s) == [t |-> "str", v |-> s]

Arr(items) == [t |-> "arr", items |-> items]

Obj(entries) == [t |-> "obj", entries |-> entries]

Entry(k, v) == [k |-> k, v |-> v]

REF == <<"$", "r", "e", "f">>

CIRCULAR == <<"$", "c", "i", "r", "c", "u", "l", "a", "r">>

HasKey(value, key) ==
    /\ value.t = "obj"
    /\ \E i \in 1..Len(value.entries) : value.entries[i].k = key

\* value[key] of an object that has the key
Get(value, key) ==
    LET i == CHOOSE j \in 1..Len(value.entries) : value.entries[j].k = key
    IN  value.entries[i].v

(***************************************************************************)
(* String helpers of the JavaScript runtime.                               *)
(***************************************************************************)
startsWith(s, prefix) ==
    /\ Len(s) >= Len(prefix)
    /\ SubSeq(s, 1, Len(prefix)) = prefix

slice(s, n) == SubSeq(s, n + 1, Len(s))

\* s.split(sep) for a one-character separator: Len >= 1, empty pieces kept
RECURSIVE split(_, _)
split(s, sep) ==
    IF \A i \in 1..Len(s) : s[i] # sep
    THEN <<s>>
    ELSE LET i == CHOOSE j \in 1..Len(s) :
                      /\ s[j] = sep
                      /\ \A k \in 1..(j - 1) : s[k] # sep
         IN  <<SubSeq(s, 1, i - 1)>> \o split(SubSeq(s, i + 1, Len(s)), sep)

\* s.replace(/pat/g, rep) for a two-character pattern: one left-to-right
\* scan, matches do not overlap and the replacement is not scanned again
RECURSIVE replaceAll(_, _, _)
replaceAll(s, pat, rep) ==
    IF Len(s) < 2 THEN s
    ELSE IF SubSeq(s, 1, 2) = pat
         THEN rep \o replaceAll(SubSeq(s, 3, Len(s)), pat, rep)
         ELSE <<s[1]>> \o replaceAll(SubSeq(s, 2, Len(s)), pat, rep)

(***************************************************************************)
(* HINT 1: unescapePointer and parseJsonPointer.                           *)
(***************************************************************************)
\* the two replacements in the other order: '~0' first, then '~1'
unescapePointerTildeFirst(segment) ==
    replaceAll(replaceAll(segment, <<"~", "0">>, <<"~">>), <<"~", "1">>, <<"/">>)

unescapePointer(segment) ==
    replaceAll(replaceAll(segment, <<"~", "1">>, <<"/">>), <<"~", "0">>, <<"~">>)

parseJsonPointer(pointer) ==
    IF ~startsWith(pointer, <<"#", "/">>)
    THEN IF startsWith(pointer, <<"#">>)
         THEN [ok |-> TRUE, path |-> <<>>]
         ELSE [ok |-> FALSE, path |-> <<>>]
    ELSE LET parts == split(slice(pointer, 2), "/")
         IN  [ok |-> TRUE,
              path |-> [i \in 1..Len(parts) |-> unescapePointer(parts[i])]]

(***************************************************************************)
(* The heap.  A node is named by the root object it hangs from and the     *)
(* child positions leading to it, so that two names of one node (the       *)
(* schema argument and doc.a, when the caller passes doc.a) are one node.  *)
(***************************************************************************)
NoAddr == [root |-> "none", path |-> <<>>]

Addr(root, path) == [root |-> root, path |-> path]

Size(value) ==
    CASE value.t = "arr" -> Len(value.items)
      [] value.t = "obj" -> Len(value.entries)
      [] OTHER -> 0

Child(value, i) ==
    IF value.t = "arr" THEN value.items[i] ELSE value.entries[i].v

RECURSIVE GetAt(_, _)
GetAt(value, path) ==
    IF path = <<>> THEN value
    ELSE IF Head(path) \in 1..Size(value)
         THEN GetAt(Child(value, Head(path)), Tail(path))
         ELSE Undef

RECURSIVE SetAt(_, _, _)
SetAt(value, path, new) ==
    IF path = <<>> THEN new
    ELSE IF Head(path) \notin 1..Size(value) THEN value
    ELSE IF value.t = "arr"
         THEN Arr([value.items EXCEPT
                      ![Head(path)] = SetAt(@, Tail(path), new)])
         ELSE Obj([value.entries EXCEPT
                      ![Head(path)].v = SetAt(@, Tail(path), new)])

(***************************************************************************)
(* HINT 2: resolvePointer.  The walk keeps the position of `current` in    *)
(* the document; found = FALSE is the value undefined.                     *)
(***************************************************************************)
DigitChars == <<"0", "1", "2", "3", "4", "5", "6", "7", "8", "9">>

IsDigit(c) == \E d \in 1..10 : DigitChars[d] = c

DigitValue(c) == (CHOOSE d \in 1..10 : DigitChars[d] = c) - 1

RECURSIVE Decimal(_)
Decimal(s) ==
    IF s = <<>> THEN 0
    ELSE 10 * Decimal(SubSeq(s, 1, Len(s) - 1)) + DigitValue(s[Len(s)])

\* a property name is an array index when it is a canonical decimal numeral
IsArrayIndex(segment) ==
    /\ segment # <<>>
    /\ \A i \in 1..Len(segment) : IsDigit(segment[i])
    /\ Len(segment) > 1 => segment[1] # "0"

\* current[segment]: the child position, or 0 when the read gives undefined
Index(current, segment) ==
    IF current.t = "obj"
    THEN IF HasKey(current, segment)
         THEN CHOOSE j \in 1..Len(current.entries) : current.entries[j].k = segment
         ELSE 0
    ELSE IF IsArrayIndex(segment) /\ Decimal(segment) < Len(current.items)
         THEN Decimal(segment) + 1
         ELSE 0

RECURSIVE walkPointer(_, _, _, _)
walkPointer(doc, found, where, path) ==
    IF path = <<>> THEN [ok |-> TRUE, found |-> found, where |-> where]
    ELSE LET current == IF found THEN GetAt(doc, where) ELSE Undef
         IN  IF current.t \in {"null", "undef"}
             THEN [ok |-> FALSE, found |-> FALSE, where |-> <<>>]
             ELSE IF current.t \notin {"obj", "arr"}
             THEN [ok |-> FALSE, found |-> FALSE, where |-> <<>>]
             ELSE LET i == Index(current, Head(path))
                  IN  IF i = 0
                      THEN walkPointer(doc, FALSE, <<>>, Tail(path))
                      ELSE walkPointer(doc, TRUE, where \o <<i>>, Tail(path))

resolvePointer(doc, path) == walkPointer(doc, TRUE, <<>>, path)

(***************************************************************************)
(* HINT 5: isRefObject.                                                    *)
(***************************************************************************)
\* mutant: only an object whose one key is $ref counts as a ref object
isRefObjectAlone(value) ==
    /\ value.t \in {"obj", "arr"}
    /\ HasKey(value, REF)
    /\ Get(value, REF).t = "str"
    /\ Size(value) = 1

isRefObject(value) ==
    /\ value.t \in {"obj", "arr"}
    /\ HasKey(value, REF)
    /\ Get(value, REF).t = "str"

(***************************************************************************)
(* Inputs.  Schema names and property names are one character long; Ptr    *)
(* is the pointer "#/<name>".                                               *)
(***************************************************************************)
Ptr(name) == <<"#", "/">> \o name

Ref(p) == Obj(<<Entry(REF, Str(p))>>)

Leaf == Str(<<"s">>)

KeyX == <<"x">>

KeyY == <<"y">>

Policies == {"error", "mark", "lazy"}

VARIABLES
    document,   \* the document object (heap root "doc")
    schema,     \* a schema object built by the caller (heap root "schema")
    input,      \* the node passed as the schema argument
    options,    \* Required<ResolveOptions>
    snapshot,   \* deep copies of the schema argument and the document at the call
    stack,      \* the active resolveRefsRecursive calls, innermost last
    ret,        \* the value the call that just returned handed back
    visited,    \* refs being resolved in the current chain
    resolved,   \* refs that have been resolved
    circular,   \* circular refs found
    derefs,     \* how often the resolution of each ref's target was started
    maxSeen,    \* the largest depth argument any call was entered with
    steps,      \* statements executed since the call
    pc,         \* "idle", "running", "done", "failed"
    result,     \* ResolveResult.resolved once done
    error       \* the Error thrown once failed

\* a call of one of the exported functions of the exercise files as they stand
VARIABLES
    call,       \* the export called and its arguments
    effect      \* what the call did: threw an Error, or returned a value

\* one withRetry call (02-retry-with-backoff.ts)
VARIABLES
    retryPc,        \* "idle", "fn" (awaiting fn()), "sleeping", "done"
    attempt,        \* the loop variable of the retry loop
    retryOptions,   \* the RetryOptions of the call, defaults filled in
    aborted,        \* options.signal.aborted
    log,            \* what the call did so far, in order
    settled         \* the promise withRetry returned

\* one Page and one item-level iteration over it (03-pagination-iterator.ts)
VARIABLES
    iterPc,         \* "idle", "constructed", "fetching", "suspended" (at a
                    \* yield), "done", "failed", "stopped" (the consumer broke)
    script,         \* the responses of the fetcher, call by call
    pageOptions,    \* the PaginatorOptions the Page was constructed with
    fetches,        \* the params of the fetcher calls so far, in order
    currentPage,    \* the iterator's currentPage: _data, _hasMore, ...
    pos,            \* the place of the for loop in currentPage.data
    itemCount,      \* the iterator's itemCount
    yielded         \* the items the consumer received, in order

\* several iterations over the Page instances of one fetcher
VARIABLES
    instances,      \* the Page instances created so far, in order
    clients,        \* each iterator's locals and the items it produced, and
                    \* the state of a caller of getNextPage with the Pages
                    \* it was returned
    fetcher         \* how the fetcher chooses its response

\* one call of a fetch wrapped by fetchWithTimeout (exercise 05, HINT 4)
VARIABLES
    now,            \* the time since the call, in timer units
    fetchCall,      \* timeoutMs, how the underlying fetchFn behaves, and when
                    \* the caller aborts its signal
    controller,     \* the wrapper's AbortController and its timer
    callerSignal,   \* init.signal: "none", "quiet" or "aborted"
    underlying,     \* the promise fetchFn returned
    wrapped         \* the promise the wrapped fetch returned

\* a second resolveRefs call over the same document, running while the
\* first one does
VARIABLES
    parked,         \* the resolution context of the call that is not running
    switches        \* how often a call was interrupted before its end

\* one call of HttpClient.request (exercise 05, HINT 7)
VARIABLES
    clientConfig,   \* this.config: what each interceptor does when called
    requestConfig,  \* config: timeout and parseJson
    requestPc,      \* "idle", the call request() is awaiting ("onRequest",
                    \* "fetch", "onError", "onResponse", "handleResponse"),
                    \* or "settled"
    request,        \* the local variable `request`
    httpResponse,   \* the local variable `response`
    made,           \* the calls request() made and what came back, in order
    requestPromise  \* the promise request() returned

resolverVars == <<document, schema, input, options, snapshot, stack, ret,
                  visited, resolved, circular, derefs, maxSeen, steps, pc,
                  result, error>>

exportVars == <<call, effect>>

retryVars == <<retryPc, attempt, retryOptions, aborted, log, settled>>

pageVars == <<iterPc, script, pageOptions, fetches, currentPage, pos, itemCount,
              yielded>>

instanceVars == <<instances, clients, fetcher>>

timeoutVars == <<now, fetchCall, controller, callerSignal, underlying, wrapped>>

concurrentVars == <<parked, switches>>

requestVars == <<clientConfig, requestConfig, requestPc, request, httpResponse,
                 made, requestPromise>>

restVars == <<instanceVars, timeoutVars, concurrentVars, requestVars>>

\* the state of everything but the resolver
otherVars == <<exportVars, retryVars, pageVars, restVars>>

vars == <<resolverVars, otherVars>>

NoCall == [fn |-> "none", args |-> <<>>]

ExportsIdle ==
    /\ call = NoCall
    /\ effect = [threw |-> FALSE, returned |-> FALSE, message |-> "",
                 value |-> Undef]

NoRet == [has |-> FALSE, v |-> Undef]

Returned(value) == [has |-> TRUE, v |-> value]

NoError == [kind |-> "none", ptr |-> <<>>]

Error(kind, ptr) == [kind |-> kind, ptr |-> ptr]

BaseDelay == 500

MaxDelay == 60000

\* HINT 1: the fields of a Page as constructed
EmptyPage == [data |-> <<>>, hasMore |-> FALSE, nextParams |-> {}, fetched |-> FALSE]

PageIdle ==
    /\ iterPc = "idle"
    /\ script = <<>>
    /\ pageOptions = [initialParams |-> {}, maxItems |-> {}, maxPages |-> {}]
    /\ fetches = <<>>
    /\ currentPage = EmptyPage
    /\ pos = 0
    /\ itemCount = 0
    /\ yielded = <<>>

\* no iterator was obtained and no getNextPage call was made
NoClient ==
    [pc |-> "idle", from |-> 0, page |-> 0, pos |-> 0, count |-> 0,
     out |-> <<>>, awaiting |-> 0]

Clients == {"a", "b", "m"}

InstancesIdle ==
    /\ instances = <<>>
    /\ clients = [c \in Clients |-> NoClient]
    /\ fetcher = "none"

\* a promise of the wrapped fetch or of fetchFn: "none" before the call,
\* then "pending", "resolved" or "rejected" with an error, settled at `at`
NoPromise == [state |-> "none", error |-> "", at |-> 0]

NoFetchCall ==
    [timeoutMs |-> 0, honoursSignal |-> FALSE, settlesAt |-> 0,
     outcome |-> "resolved", abortAt |-> 0]

TimeoutIdle ==
    /\ now = 0
    /\ fetchCall = NoFetchCall
    /\ controller = [aborted |-> FALSE, timer |-> "none"]
    /\ callerSignal = "none"
    /\ underlying = NoPromise
    /\ wrapped = NoPromise

\* the context of a call not made yet
IdleContext ==
    [schema |-> Undef, input |-> NoAddr,
     options |-> [circularHandling |-> "error", maxDepth |-> 100,
                  mutate |-> FALSE],
     snapshot |-> [schema |-> Undef, doc |-> Undef],
     stack |-> <<>>, ret |-> NoRet, visited |-> {}, resolved |-> {},
     circular |-> {}, derefs |-> [p \in {} |-> 0], maxSeen |-> 0, steps |-> 0,
     pc |-> "idle", result |-> Undef, error |-> NoError]

ConcurrentIdle ==
    /\ parked = IdleContext
    /\ switches = 0

NoRequest == [by |-> "none"]

NoResponse == [status |-> 0, body |-> Undef, by |-> "none"]

NoRequestError == [name |-> "", from |-> ""]

RequestIdle ==
    /\ clientConfig = [onRequest |-> "none", onResponse |-> "none",
                       onError |-> "none", timeout |-> FALSE]
    /\ requestConfig = [timeout |-> FALSE, parseJson |-> TRUE]
    /\ requestPc = "idle"
    /\ request = NoRequest
    /\ httpResponse = NoResponse
    /\ made = <<>>
    /\ requestPromise = [state |-> "none", value |-> Undef,
                         error |-> NoRequestError]

RestIdle == InstancesIdle /\ TimeoutIdle /\ ConcurrentIdle /\ RequestIdle

NoFailure == [kind |-> "none", status |-> 0]

\* a promise: "pending", "resolved" with data and attempts, or "rejected"
\* with an error
Pending ==
    [state |-> "pending", data |-> "", attempts |-> 0, error |-> NoFailure]

RetryIdle ==
    /\ retryPc = "idle"
    /\ attempt = 0
    /\ retryOptions = [maxRetries |-> 0, baseDelay |-> BaseDelay,
                       maxDelay |-> MaxDelay, onRetry |-> FALSE,
                       signal |-> FALSE]
    /\ aborted = FALSE
    /\ log = <<>>
    /\ settled = Pending

Heap(root) ==
    CASE root = "doc" -> document
      [] root = "schema" -> schema
      [] OTHER -> Undef

Node(at) == GetAt(Heap(at.root), at.path)

Frame(kind, at, depth, refPath) ==
    [kind |-> kind, at |-> at, keys |-> <<>>, n |-> 0, i |-> 0, acc |-> <<>>,
     depth |-> depth, refPath |-> refPath]

Top == stack[Len(stack)]

Pop == SubSeq(stack, 1, Len(stack) - 1)

ReplaceTop(frame) == [stack EXCEPT ![Len(stack)] = frame]


(***************************************************************************)
(* Bounds and the input sets.                                              *)
(***************************************************************************)
\* calls that may be active at once; a resolution that needs more is stuck
MaxStack == 12

\* statements one resolveRefs call may execute; one that needs more is stuck
MaxSteps == 150

\* the small maxDepth a caller may configure besides the default
SmallMaxDepth == 2

DefaultMaxDepth == 100

PtrA == Ptr(<<"a">>)

PtrB == Ptr(<<"b">>)

PtrC == Ptr(<<"c">>)

\* "#/z": the last segment is absent;  "#/z/a": an inner segment is absent
PtrMissing == Ptr(<<"z">>)

PtrMissingInner == Ptr(<<"z", "/", "a">>)

\* "./a" (a relative file) and "h:" (a URL scheme)
PtrFile == <<".", "/", "a">>

PtrUrl == <<"h", ":">>

InternalPtrs == {PtrA, PtrB}

AllPtrs == InternalPtrs \cup {PtrMissing, PtrFile}

\* the shapes of a schema of the generated documents
ShapesWide ==
    {Leaf}
    \cup {Ref(p) : p \in AllPtrs}
    \cup {Obj(<<Entry(KeyX, Ref(p))>>) : p \in AllPtrs}
    \cup {Obj(<<Entry(KeyX, Ref(p)), Entry(KeyY, Ref(q))>>) :
             p \in InternalPtrs, q \in AllPtrs}
    \cup {Obj(<<Entry(KeyX, Arr(<<Ref(p), Leaf>>))>>) : p \in InternalPtrs}

ShapesNarrow ==
    {Leaf}
    \cup {Ref(p) : p \in InternalPtrs \cup {PtrMissing}}
    \cup {Obj(<<Entry(KeyX, Ref(p))>>) : p \in InternalPtrs}
    \cup {Obj(<<Entry(KeyX, Ref(p)), Entry(KeyY, Ref(p))>>) : p \in InternalPtrs}

Doc2(a, b) == Obj(<<Entry(<<"a">>, a), Entry(<<"b">>, b)>>)

Doc3(a, b, c) ==
    Obj(<<Entry(<<"a">>, a), Entry(<<"b">>, b), Entry(<<"c">>, c)>>)

GeneratedDocs == {Doc2(a, b) : a \in ShapesWide, b \in ShapesNarrow}

(***************************************************************************)
(* HINT 6 and HINT 7, statement by statement.  Each step of the recursion  *)
(* is an action; its enabling condition is a definition of its own         *)
(* (<action>Enabled), and what follows it in the action only assigns.      *)
(***************************************************************************)
\* mutant: the external check is left out
isExternalNever(refPath) == FALSE

\* !refPath.startsWith('#')
isExternal(refPath) == ~startsWith(refPath, <<"#">>)

\* mutant: the circular check is left out
visitedHasNever(set, refPath) == FALSE

\* visited.has(refPath)
visitedHas(set, refPath) == refPath \in set

\* mutant: 'mark' hands back the ref object, as 'lazy' does
circularOutcomeMarkKeepsRef(handling, refPath) ==
    IF handling = "error"
    THEN [throws |-> TRUE, value |-> Undef]
    ELSE [throws |-> FALSE, value |-> Obj(<<Entry(REF, Str(refPath))>>)]

\* mutant: 'error' hands back the mark node instead of throwing
circularOutcomeErrorMarks(handling, refPath) ==
    IF handling = "lazy"
    THEN [throws |-> FALSE, value |-> Obj(<<Entry(REF, Str(refPath))>>)]
    ELSE [throws |-> FALSE, value |-> Obj(<<Entry(CIRCULAR, Str(refPath))>>)]

\* mutant: the mark node keeps the $ref beside the $circular key
circularOutcomeMarkBesideRef(handling, refPath) ==
    CASE handling = "error" ->
             [throws |-> TRUE, value |-> Undef]
      [] handling = "mark" ->
             [throws |-> FALSE,
              value |-> Obj(<<Entry(CIRCULAR, Str(refPath)),
                              Entry(REF, Str(refPath))>>)]
      [] handling = "lazy" ->
             [throws |-> FALSE, value |-> Obj(<<Entry(REF, Str(refPath))>>)]

\* the switch on options.circularHandling: what it throws or returns
circularOutcome(handling, refPath) ==
    CASE handling = "error" ->
             [throws |-> TRUE, value |-> Undef]
      [] handling = "mark" ->
             [throws |-> FALSE, value |-> Obj(<<Entry(CIRCULAR, Str(refPath))>>)]
      [] handling = "lazy" ->
             [throws |-> FALSE, value |-> Obj(<<Entry(REF, Str(refPath))>>)]

\* mutant: the ref stays in visited after its target is resolved
visitedDeleteForgotten(set, refPath) == set

\* visited.delete(refPath)
visitedDelete(set, refPath) == set \ {refPath}

\* mutant: the set is replaced by one holding the new ref alone
resolvedAddAlone(set, refPath) == {refPath}

\* resolved.add(refPath)
resolvedAdd(set, refPath) == set \cup {refPath}

\* mutant: schema[key] = ... , the value is written into the schema itself
assignInPlace(root, at, i, value) ==
    IF at.root = root
    THEN SetAt(Heap(root), at.path \o <<i>>, value)
    ELSE Heap(root)

\* result[key] = ... : result is the object created in this call, so the
\* objects hanging from `root` are the ones they were
assignResult(root, at, i, value) == Heap(root)

Running == pc = "running" /\ steps < MaxSteps

Entering == Running /\ stack # <<>> /\ Top.kind = "enter" /\ ~ret.has

Tick == steps' = steps + 1

Throw(e) ==
    /\ pc' = "failed"
    /\ error' = e
    /\ stack' = <<>>
    /\ ret' = NoRet

Return(value) ==
    /\ stack' = Pop
    /\ ret' = Returned(value)

\* resolveRefsRecursive(<the node at `at`>, ..., depth, ...) is entered
Call(frames, at, depth) ==
    /\ stack' = Append(frames, Frame("enter", at, depth, <<>>))
    /\ maxSeen' = IF depth > maxSeen THEN depth ELSE maxSeen

RefPathOf(node) == Get(node, REF).v

\* the schema is a ref object whose refPath passed the external check
EnteringInternalRef ==
    /\ Entering
    /\ isRefObject(Node(Top.at))
    /\ ~isExternal(RefPathOf(Node(Top.at)))

\* const target = resolvePointer(doc, parseJsonPointer(refPath))
targetOf(refPath) ==
    LET path == parseJsonPointer(refPath)
    IN  IF path.ok
        THEN resolvePointer(document, path.path)
        ELSE [ok |-> FALSE, found |-> FALSE, where |-> <<>>]

EnterRefExternalEnabled ==
    /\ Entering
    /\ isRefObject(Node(Top.at))
    /\ isExternal(RefPathOf(Node(Top.at)))

\* throw new Error(`External references not supported: ${refPath}`)
EnterRefExternal ==
    /\ EnterRefExternalEnabled
    /\ Throw(Error("external", RefPathOf(Node(Top.at))))
    /\ Tick
    /\ UNCHANGED otherVars
    /\ UNCHANGED <<document, schema, input, options, snapshot, visited,
                   resolved, circular, derefs, maxSeen, result>>

EnterRefCircularEnabled ==
    /\ EnteringInternalRef
    /\ visitedHas(visited, RefPathOf(Node(Top.at)))

\* the circular check
EnterRefCircular ==
    /\ EnterRefCircularEnabled
    /\ LET refPath == RefPathOf(Node(Top.at))
           outcome == circularOutcome(options.circularHandling, refPath)
       IN  /\ circular' = circular \cup {refPath}
           /\ IF outcome.throws
              THEN Throw(Error("circular", refPath))
              ELSE Return(outcome.value) /\ UNCHANGED <<pc, error>>
    /\ Tick
    /\ UNCHANGED otherVars
    /\ UNCHANGED <<document, schema, input, options, snapshot, visited,
                   resolved, derefs, maxSeen, result>>

EnterRefUnresolvableEnabled ==
    /\ EnteringInternalRef
    /\ ~visitedHas(visited, RefPathOf(Node(Top.at)))
    /\ ~targetOf(RefPathOf(Node(Top.at))).ok

\* parseJsonPointer or resolvePointer throws
EnterRefUnresolvable ==
    /\ EnterRefUnresolvableEnabled
    /\ IF parseJsonPointer(RefPathOf(Node(Top.at))).ok
       THEN Throw(Error("path", <<>>))
       ELSE Throw(Error("pointer", RefPathOf(Node(Top.at))))
    /\ Tick
    /\ UNCHANGED otherVars
    /\ UNCHANGED <<document, schema, input, options, snapshot, visited,
                   resolved, circular, derefs, maxSeen, result>>

EnterRefResolveEnabled ==
    /\ EnteringInternalRef
    /\ ~visitedHas(visited, RefPathOf(Node(Top.at)))
    /\ targetOf(RefPathOf(Node(Top.at))).ok
    /\ Len(stack) < MaxStack

\* resolve the reference and recursively resolve the target
EnterRefResolve ==
    /\ EnterRefResolveEnabled
    /\ LET refPath == RefPathOf(Node(Top.at))
           target == targetOf(refPath)
       IN  /\ resolved' = resolvedAdd(resolved, refPath)
           /\ visited' = visited \cup {refPath}
           /\ derefs' = IF refPath \in DOMAIN derefs
                        THEN [derefs EXCEPT ![refPath] = @ + 1]
                        ELSE derefs @@ (refPath :> 1)
           /\ Call(ReplaceTop([Top EXCEPT !.kind = "ref", !.refPath = refPath]),
                   IF target.found THEN Addr("doc", target.where) ELSE NoAddr,
                   Top.depth + 1)
    /\ Tick
    /\ UNCHANGED otherVars
    /\ UNCHANGED <<document, schema, input, options, snapshot, ret, circular,
                   pc, result, error>>

ReturnRefEnabled == Running /\ stack # <<>> /\ Top.kind = "ref" /\ ret.has

\* visited.delete(refPath); return result
ReturnRef ==
    /\ ReturnRefEnabled
    /\ visited' = visitedDelete(visited, Top.refPath)
    /\ stack' = Pop
    /\ Tick
    /\ UNCHANGED otherVars
    /\ UNCHANGED <<document, schema, input, options, snapshot, ret, resolved,
                   circular, derefs, maxSeen, pc, result, error>>

EnterArrayEnabled ==
    /\ Entering
    /\ ~isRefObject(Node(Top.at))
    /\ Node(Top.at).t = "arr"

\* Array.isArray(schema): schema.map(...) starts
EnterArray ==
    /\ EnterArrayEnabled
    /\ stack' = ReplaceTop([Top EXCEPT !.kind = "arr",
                                        !.n = Len(Node(Top.at).items)])
    /\ Tick
    /\ UNCHANGED otherVars
    /\ UNCHANGED <<document, schema, input, options, snapshot, ret, visited,
                   resolved, circular, derefs, maxSeen, pc, result, error>>

MapItemEnabled ==
    /\ Running /\ stack # <<>> /\ Top.kind = "arr" /\ ~ret.has
    /\ Top.i < Top.n
    /\ Len(stack) < MaxStack

\* the map callback calls resolveRefsRecursive(item, ..., depth + 1, ...)
MapItem ==
    /\ MapItemEnabled
    /\ Call(stack, Addr(Top.at.root, Top.at.path \o <<Top.i + 1>>), Top.depth + 1)
    /\ Tick
    /\ UNCHANGED otherVars
    /\ UNCHANGED <<document, schema, input, options, snapshot, ret, visited,
                   resolved, circular, derefs, pc, result, error>>

CollectItemEnabled == Running /\ stack # <<>> /\ Top.kind = "arr" /\ ret.has

\* the callback's value becomes the next element of the new array
CollectItem ==
    /\ CollectItemEnabled
    /\ stack' = ReplaceTop([Top EXCEPT !.i = @ + 1, !.acc = Append(@, ret.v)])
    /\ ret' = NoRet
    /\ Tick
    /\ UNCHANGED otherVars
    /\ UNCHANGED <<document, schema, input, options, snapshot, visited,
                   resolved, circular, derefs, maxSeen, pc, result, error>>

ReturnArrayEnabled ==
    /\ Running /\ stack # <<>> /\ Top.kind = "arr" /\ ~ret.has
    /\ Top.i >= Top.n

\* map returns the new array
ReturnArray ==
    /\ ReturnArrayEnabled
    /\ Return(Arr(Top.acc))
    /\ Tick
    /\ UNCHANGED otherVars
    /\ UNCHANGED <<document, schema, input, options, snapshot, visited,
                   resolved, circular, derefs, maxSeen, pc, result, error>>

EnterObjectEnabled ==
    /\ Entering
    /\ ~isRefObject(Node(Top.at))
    /\ Node(Top.at).t = "obj"

\* typeof schema === 'object' && schema !== null: const result = {} and
\* Object.entries(schema)
EnterObject ==
    /\ EnterObjectEnabled
    /\ stack' = ReplaceTop(
           [Top EXCEPT !.kind = "obj",
                       !.n = Len(Node(Top.at).entries),
                       !.keys = [j \in 1..Len(Node(Top.at).entries) |->
                                    Node(Top.at).entries[j].k]])
    /\ Tick
    /\ UNCHANGED otherVars
    /\ UNCHANGED <<document, schema, input, options, snapshot, ret, visited,
                   resolved, circular, derefs, maxSeen, pc, result, error>>

NextEntryEnabled ==
    /\ Running /\ stack # <<>> /\ Top.kind = "obj" /\ ~ret.has
    /\ Top.i < Top.n
    /\ Len(stack) < MaxStack

\* for (const [key, value] of ...): resolveRefsRecursive(value, ..., depth + 1, ...)
NextEntry ==
    /\ NextEntryEnabled
    /\ Call(stack, Addr(Top.at.root, Top.at.path \o <<Top.i + 1>>), Top.depth + 1)
    /\ Tick
    /\ UNCHANGED otherVars
    /\ UNCHANGED <<document, schema, input, options, snapshot, ret, visited,
                   resolved, circular, derefs, pc, result, error>>

CollectEntryEnabled == Running /\ stack # <<>> /\ Top.kind = "obj" /\ ret.has

\* result[key] = the value the call returned
CollectEntry ==
    /\ CollectEntryEnabled
    /\ stack' = ReplaceTop(
           [Top EXCEPT !.i = @ + 1,
                       !.acc = Append(@, Entry(Top.keys[Top.i + 1], ret.v))])
    /\ ret' = NoRet
    /\ document' = assignResult("doc", Top.at, Top.i + 1, ret.v)
    /\ schema' = assignResult("schema", Top.at, Top.i + 1, ret.v)
    /\ Tick
    /\ UNCHANGED otherVars
    /\ UNCHANGED <<input, options, snapshot, visited, resolved, circular,
                   derefs, maxSeen, pc, result, error>>

ReturnObjectEnabled ==
    /\ Running /\ stack # <<>> /\ Top.kind = "obj" /\ ~ret.has
    /\ Top.i >= Top.n

\* return result
ReturnObject ==
    /\ ReturnObjectEnabled
    /\ Return(Obj(Top.acc))
    /\ Tick
    /\ UNCHANGED otherVars
    /\ UNCHANGED <<document, schema, input, options, snapshot, visited,
                   resolved, circular, derefs, maxSeen, pc, result, error>>

EnterPrimitiveEnabled ==
    /\ Entering
    /\ ~isRefObject(Node(Top.at))
    /\ Node(Top.at).t \notin {"arr", "obj"}

\* return schema: primitives pass through
EnterPrimitive ==
    /\ EnterPrimitiveEnabled
    /\ Return(Node(Top.at))
    /\ Tick
    /\ UNCHANGED otherVars
    /\ UNCHANGED <<document, schema, input, options, snapshot, visited,
                   resolved, circular, derefs, maxSeen, pc, result, error>>

(***************************************************************************)
(* resolveRefs(schema, document, options): the resolution context is made  *)
(* new for the call and the recursion starts at depth 0 on the schema      *)
(* argument; its result is handed back with the two sets.                  *)
(***************************************************************************)
Options ==
    [circularHandling : Policies,
     maxDepth : {SmallMaxDepth, DefaultMaxDepth},
     mutate : BOOLEAN]

\* schema objects a caller builds apart from the document
Fragments ==
    {Ref(p) : p \in AllPtrs \cup {PtrUrl, PtrMissingInner, <<"#">>}}
    \cup {Obj(<<Entry(KeyX, Ref(p)), Entry(KeyY, Ref(q))>>) :
             p \in InternalPtrs \cup {PtrMissingInner}, q \in {PtrA, PtrFile}}
    \cup {Obj(<<Entry(REF, Str(PtrA)), Entry(KeyX, Ref(q))>>) :
             q \in {PtrB, PtrFile}}
    \cup {Obj(<<Entry(REF, Null), Entry(KeyX, Ref(PtrA))>>)}

resolveRefsEnabled == pc = "idle"

resolveRefs ==
    /\ resolveRefsEnabled
    /\ \E opts \in Options :
       \E arg \in {Addr("doc", <<i>>) : i \in 1..Size(document)}
                    \cup {Addr("schema", <<>>)} :
       \E built \in IF arg.root = "schema" THEN Fragments ELSE {Undef} :
          /\ options' = opts
          /\ schema' = built
          /\ input' = arg
          /\ snapshot' = [schema |-> IF arg.root = "schema" THEN built
                                     ELSE GetAt(document, arg.path),
                          doc |-> document]
          /\ stack' = <<Frame("enter", arg, 0, <<>>)>>
    /\ pc' = "running"
    /\ visited' = {}
    /\ resolved' = {}
    /\ circular' = {}
    /\ steps' = 0
    /\ UNCHANGED <<document, ret, derefs, maxSeen, result, error>>
    /\ UNCHANGED otherVars

FinishEnabled == Running /\ stack = <<>> /\ ret.has

\* the outermost call returned: { resolved, resolvedRefs, circularRefs }
Finish ==
    /\ FinishEnabled
    /\ pc' = "done"
    /\ result' = ret.v
    /\ ret' = NoRet
    /\ Tick
    /\ UNCHANGED otherVars
    /\ UNCHANGED <<document, schema, input, options, snapshot, stack, visited,
                   resolved, circular, derefs, maxSeen, error>>

\* documents that need a third schema, nesting, escapes or array indices
SpecialDocs ==
    { \* A -> B -> C -> A
      Doc3(Ref(PtrB), Ref(PtrC), Ref(PtrA)),
      Doc3(Obj(<<Entry(KeyX, Ref(PtrB))>>), Obj(<<Entry(KeyX, Ref(PtrC))>>),
           Obj(<<Entry(KeyX, Ref(PtrA))>>)),
      \* a diamond: a -> b, a -> c, b -> c
      Doc3(Obj(<<Entry(KeyX, Ref(PtrB)), Entry(KeyY, Ref(PtrC))>>),
           Obj(<<Entry(KeyX, Ref(PtrC))>>), Leaf),
      \* an acyclic chain deeper than SmallMaxDepth
      Doc3(Obj(<<Entry(KeyX, Obj(<<Entry(KeyY, Ref(PtrB))>>))>>),
           Arr(<<Ref(PtrC)>>), Obj(<<Entry(KeyX, Leaf)>>)),
      \* "#/a/x/0" walks an object, then an array
      Doc2(Obj(<<Entry(KeyX, Arr(<<Leaf, Null>>))>>),
           Ref(Ptr(<<"a", "/", "x", "/", "0">>))),
      \* the key "x/y" is written "x~1y", the key "~1" is written "~01"
      Doc3(Obj(<<Entry(<<"x", "/", "y">>, Leaf), Entry(<<"~", "1">>, Null)>>),
           Ref(Ptr(<<"a", "/", "x", "~", "1", "y">>)),
           Ref(Ptr(<<"a", "/", "~", "0", "1">>))) }

Docs == GeneratedDocs \cup SpecialDocs

Init ==
    /\ document \in Docs
    /\ schema = Undef
    /\ input = NoAddr
    /\ options = [circularHandling |-> "error", maxDepth |-> DefaultMaxDepth,
                  mutate |-> FALSE]
    /\ snapshot = [schema |-> Undef, doc |-> Undef]
    /\ stack = <<>>
    /\ ret = NoRet
    /\ visited = {}
    /\ resolved = {}
    /\ circular = {}
    /\ derefs = [p \in {} |-> 0]
    /\ maxSeen = 0
    /\ steps = 0
    /\ pc = "idle"
    /\ result = Undef
    /\ error = NoError
    /\ ExportsIdle
    /\ RetryIdle
    /\ PageIdle
    /\ RestIdle

Next ==
    \/ resolveRefs
    \/ EnterRefExternal
    \/ EnterRefCircular
    \/ EnterRefUnresolvable
    \/ EnterRefResolve
    \/ ReturnRef
    \/ EnterArray
    \/ MapItem
    \/ CollectItem
    \/ ReturnArray
    \/ EnterObject
    \/ NextEntry
    \/ CollectEntry
    \/ ReturnObject
    \/ EnterPrimitive
    \/ Finish

Spec == Init /\ [][Next]_vars

Terminated == pc \in {"done", "failed"}

\* some step of the call can be taken
CanStep ==
    \/ resolveRefsEnabled
    \/ EnterRefExternalEnabled
    \/ EnterRefCircularEnabled
    \/ EnterRefUnresolvableEnabled
    \/ EnterRefResolveEnabled
    \/ ReturnRefEnabled
    \/ EnterArrayEnabled
    \/ MapItemEnabled
    \/ CollectItemEnabled
    \/ ReturnArrayEnabled
    \/ EnterObjectEnabled
    \/ NextEntryEnabled
    \/ CollectEntryEnabled
    \/ ReturnObjectEnabled
    \/ EnterPrimitiveEnabled
    \/ FinishEnabled

(***************************************************************************)
(* C1.  Every resolveRefs call terminates: whatever the document (cyclic   *)
(* reference graphs included), the schema argument and the circular-       *)
(* handling policy, the call returns a result or throws within MaxSteps    *)
(* statements and MaxStack nested calls.  Every step adds one to steps, so *)
(* no state repeats, and a call that has not ended always has a next step  *)
(* within the two bounds: the recursion cannot go on forever.              *)
(***************************************************************************)
C1_Terminates == Terminated \/ CanStep

\* a call over the cycle a -> b -> c -> a has returned a result
C1_Witness ==
    /\ pc = "done"
    /\ resolved = {PtrA, PtrB, PtrC}
    /\ circular # {}

(***************************************************************************)
(* The reference graph of the document, read off the data alone: p -> q    *)
(* when the value p points to holds, where the traversal looks, a ref      *)
(* object with $ref q.                                                     *)
(***************************************************************************)
RECURSIVE RefsIn(_)
RefsIn(value) ==
    IF isRefObject(value) THEN {RefPathOf(value)}
    ELSE UNION {RefsIn(Child(value, i)) : i \in 1..Size(value)}

Pointee(p) ==
    LET target == targetOf(p)
    IN  IF startsWith(p, <<"#">>) /\ target.ok /\ target.found
        THEN GetAt(document, target.where)
        ELSE Undef

RECURSIVE Closure(_)
Closure(set) ==
    LET more == set \cup UNION {RefsIn(Pointee(p)) : p \in set}
    IN  IF more = set THEN set ELSE Closure(more)

ReachableFrom(value) == Closure(RefsIn(value))

OnCycle(p) == p \in ReachableFrom(Pointee(p))

\* every ref the resolution of `value` can meet is internal, resolves,
\* and lies on no cycle
Acyclic(value) ==
    \A p \in ReachableFrom(value) :
        /\ startsWith(p, <<"#">>)
        /\ targetOf(p).ok
        /\ ~OnCycle(p)

\* `value` with every ref object replaced by what it points to, all the way down
RECURSIVE Inline(_)
Inline(value) ==
    IF isRefObject(value) THEN Inline(Pointee(RefPathOf(value)))
    ELSE IF value.t = "arr"
    THEN Arr([i \in 1..Len(value.items) |-> Inline(value.items[i])])
    ELSE IF value.t = "obj"
    THEN Obj([i \in 1..Len(value.entries) |->
                 Entry(value.entries[i].k, Inline(value.entries[i].v))])
    ELSE value

(***************************************************************************)
(* C2.  A diamond is no cycle: a ref that lies on no cycle of the          *)
(* reference graph is never put in circularRefs and never named by a       *)
(* circular-reference error, however often and along however many sibling  *)
(* branches one call reaches it, under every policy; and when nothing the  *)
(* call can reach is cyclic, the result is the schema with every           *)
(* occurrence of every ref fully dereferenced.                             *)
(***************************************************************************)
C2_DiamondNotCircular ==
    /\ \A p \in circular : OnCycle(p)
    /\ (pc = "failed" /\ error.kind = "circular") => OnCycle(error.ptr)
    /\ (pc = "done" /\ Acyclic(snapshot.schema)) =>
           /\ result = Inline(snapshot.schema)
           /\ circular = {}

\* one call dereferenced the same ref twice and flagged nothing
C2_Witness ==
    /\ pc = "done"
    /\ circular = {}
    /\ \E p \in DOMAIN derefs : derefs[p] >= 2 /\ ~OnCycle(p)

\* some mapping of `value`, at any depth, carries a $ref string
RECURSIVE HasRefMarker(_)
HasRefMarker(value) ==
    \/ isRefObject(value)
    \/ \E i \in 1..Size(value) : HasRefMarker(Child(value, i))

(***************************************************************************)
(* C3.  A result returned under the error or the mark policy holds no      *)
(* reference marker (no mapping with a $ref string) at any depth, and a    *)
(* result returned under the error policy comes from a call that met no    *)
(* cycle: only lazy leaves markers in the output.                          *)
(***************************************************************************)
C3_NoRefMarkers ==
    pc = "done" =>
        /\ options.circularHandling # "lazy" => ~HasRefMarker(result)
        /\ options.circularHandling = "error" => circular = {}

\* mark replaced a circular reference in a returned result
C3_Witness ==
    /\ pc = "done"
    /\ options.circularHandling = "mark"
    /\ circular # {}
    /\ HasRefMarker(snapshot.schema)

\* the refs whose target is being resolved by an active call
ActiveChain ==
    {stack[i].refPath : i \in {j \in 1..Len(stack) : stack[j].kind = "ref"}}

\* the call just entered has a ref object with this pointer as its schema
Reaches(p) ==
    /\ Entering
    /\ isRefObject(Node(Top.at))
    /\ RefPathOf(Node(Top.at)) = p

(***************************************************************************)
(* C4.  Under the error policy, when the resolution reaches a reference    *)
(* whose pointer is being resolved by an active call of the chain, the     *)
(* next step throws the circular-reference error naming that pointer, and  *)
(* no result is returned.                                                  *)
(***************************************************************************)
C4_ErrorPolicyThrows ==
    [][\A p \in ActiveChain :
          (Reaches(p) /\ options.circularHandling = "error") =>
              /\ pc' = "failed"
              /\ error' = Error("circular", p)
              /\ result' = Undef]_vars

\* the schema a: { $ref: '#/a' }, passed as doc.a, threw the circular error
C4_Witness ==
    /\ pc = "failed"
    /\ error = Error("circular", PtrA)
    /\ snapshot.schema = Ref(PtrA)
    /\ input = Addr("doc", <<1>>)

\* where `value` holds ref objects that the traversal of `value` itself meets
RECURSIVE RefPositions(_, _)
RefPositions(value, prefix) ==
    IF isRefObject(value) THEN {prefix}
    ELSE UNION {RefPositions(Child(value, i), prefix \o <<i>>) :
                   i \in 1..Size(value)}

\* the schema argument is the document's own schema doc.<name>, not a ref to it
DirectCall == pc # "idle" /\ input.root = "doc" /\ Len(input.path) = 1

\* the pointer "#/<name>" of the schema passed in a direct call
InputPtr == Ptr(document.entries[input.path[1]].k)

\* the places of the schema argument that refer back to the schema itself
SelfRefPositions ==
    {q \in RefPositions(snapshot.schema, <<>>) :
        q # <<>> /\ RefPathOf(GetAt(snapshot.schema, q)) = InputPtr}

(***************************************************************************)
(* C5.  Under the mark policy, when resolveRefs is called on the schema    *)
(* stored at pointer P itself and that schema holds a nested reference to  *)
(* P, the result has the circular-marker node for P at the place of that   *)
(* reference, P's target is not expanded there, and circularRefs holds P.  *)
(***************************************************************************)
C5_MarkDirectSelfRef ==
    (pc = "done" /\ DirectCall /\ options.circularHandling = "mark") =>
        \A q \in SelfRefPositions :
            /\ GetAt(result, q) = Obj(<<Entry(CIRCULAR, Str(InputPtr))>>)
            /\ InputPtr \in circular

(***************************************************************************)
(* C6.  Under the lazy policy, when resolveRefs is called on the schema    *)
(* stored at pointer P itself and that schema holds a nested reference to  *)
(* P, the result keeps { $ref: P } at the place of that reference and      *)
(* does not expand P's target there.                                       *)
(***************************************************************************)
C6_LazyDirectSelfRef ==
    (pc = "done" /\ DirectCall /\ options.circularHandling = "lazy") =>
        \A q \in SelfRefPositions :
            GetAt(result, q) = Obj(<<Entry(REF, Str(InputPtr))>>)

\* the $ref strings of `value`, at any depth, that do not begin with '#'
RECURSIVE ExternalRefsIn(_)
ExternalRefsIn(value) ==
    (IF isRefObject(value) /\ (RefPathOf(value) = <<>> \/ Head(RefPathOf(value)) # "#")
     THEN {RefPathOf(value)} ELSE {})
    \cup UNION {ExternalRefsIn(Child(value, i)) : i \in 1..Size(value)}

(***************************************************************************)
(* C7 as stated.  A reference whose pointer does not begin with '#',       *)
(* wherever it occurs in the schema argument, makes resolveRefs fail with  *)
(* the external-reference error naming that pointer, under every policy.   *)
(***************************************************************************)
C7_ExternalAlwaysFails ==
    (Terminated /\ ExternalRefsIn(snapshot.schema) # {}) =>
        /\ pc = "failed"
        /\ error.kind = "external"
        /\ error.ptr \in ExternalRefsIn(snapshot.schema)

(***************************************************************************)
(* C7 as amended.  When the resolution reaches a reference whose pointer   *)
(* does not begin with '#', the next step throws the external-reference    *)
(* error naming that pointer, under every policy and at every depth, and   *)
(* neither the cycle check nor the pointer parser gets to see the pointer: *)
(* circularRefs and resolvedRefs are left as they were.                    *)
(***************************************************************************)
C7_ExternalReachedFails ==
    [][\A p \in ExternalRefsIn(document) \cup ExternalRefsIn(schema) :
          Reaches(p) =>
              /\ pc' = "failed"
              /\ error' = Error("external", p)
              /\ circular' = circular
              /\ resolved' = resolved]_vars

\* under lazy, an external reference met below the schema's top made the call fail
C7_Witness ==
    /\ pc = "failed"
    /\ error = Error("external", PtrFile)
    /\ options.circularHandling = "lazy"
    /\ resolved # {}
    /\ steps > 3

\* every segment of `path` is there to be walked, the last one included
RECURSIVE Walkable(_, _)
Walkable(value, path) ==
    \/ path = <<>>
    \/ /\ value.t \in {"obj", "arr"}
       /\ Index(value, Head(path)) # 0
       /\ Walkable(Child(value, Index(value, Head(path))), Tail(path))

RECURSIVE HasUndefined(_)
HasUndefined(value) ==
    \/ value.t = "undef"
    \/ \E i \in 1..Size(value) : HasUndefined(Child(value, i))

(***************************************************************************)
(* C8.  A pointer whose path cannot be walked to its end in the document   *)
(* (a key is absent, the last segment included) always fails: no such      *)
(* pointer is ever resolved, and no result is or holds undefined.          *)
(***************************************************************************)
C8_MissingPathFails ==
    /\ \A p \in resolved : Walkable(document, parseJsonPointer(p).path)
    /\ pc = "done" => ~HasUndefined(result)

(***************************************************************************)
(* C9.  A call with mutate: false leaves the schema argument and the       *)
(* document deep-equal to their snapshots from before the call, at every   *)
(* point of the call and whether it returns or throws.                     *)
(***************************************************************************)
C9_NoMutation ==
    (pc # "idle" /\ ~options.mutate) =>
        /\ document = snapshot.doc
        /\ Node(input) = snapshot.schema

\* a call with mutate: false returned a rewritten copy of doc.a
C9_Witness ==
    /\ pc = "done"
    /\ ~options.mutate
    /\ input = Addr("doc", <<1>>)
    /\ resolved # {}
    /\ result # snapshot.schema

(***************************************************************************)
(* C10.  The depth of the recursion never exceeds options.maxDepth: no     *)
(* call of resolveRefsRecursive is entered with a greater depth, and a     *)
(* result is returned only when no greater depth was needed.  (Stated for  *)
(* the calls whose every resolved pointer exists in the document.)         *)
(***************************************************************************)
C10_DepthBounded ==
    (/\ pc # "idle"
     /\ \A p \in resolved : Walkable(document, parseJsonPointer(p).path)) =>
        maxSeen <= options.maxDepth

(***************************************************************************)
(* The exports of 01-openapi-to-types.ts as the file has them.  The body   *)
(* of each is the one statement  throw new Error('Not implemented').       *)
(***************************************************************************)
NotImplemented == "Not implemented"

Throws(message) ==
    [threw |-> TRUE, returned |-> FALSE, message |-> message, value |-> Undef]

Returns(value) ==
    [threw |-> FALSE, returned |-> TRUE, message |-> "", value |-> value]

parseJsonPointerExport(pointer) == Throws(NotImplemented)

\* resolvePointer with the body of HINT 5 in place of the throw
resolvePointerExportFilled(doc, path) ==
    LET r == resolvePointer(doc, path)
    IN  IF ~r.ok THEN Throws("Cannot resolve path")
        ELSE IF r.found THEN Returns(GetAt(doc, r.where))
        ELSE Returns(Undef)

resolvePointerExport(doc, path) == Throws(NotImplemented)

resolveRefsExport(sch, doc, opts) == Throws(NotImplemented)

resolveDocumentExport(doc, opts) == Throws(NotImplemented)

hasUnresolvedRefsExport(sch) == Throws(NotImplemented)

collectRefsExport(sch) == Throws(NotImplemented)

COMPONENTS == <<"c", "o", "m", "p", "o", "n", "e", "n", "t", "s">>

SCHEMAS == <<"s", "c", "h", "e", "m", "a", "s">>

Sections ==
    {SCHEMAS,
     <<"r", "e", "s", "p", "o", "n", "s", "e", "s">>,
     <<"p", "a", "r", "a", "m", "e", "t", "e", "r", "s">>,
     <<"r", "e", "q", "u", "e", "s", "t", "B", "o", "d", "i", "e", "s">>}

\* { components: { schemas: { a, b }, <section>: { r } } }, the refs written
\* "#/components/schemas/<name>"
OpenAPIDocuments ==
    LET ptr(name) ==
            <<"#", "/">> \o COMPONENTS \o <<"/">> \o SCHEMAS \o <<"/">> \o name
        doc(a, b, section, r) ==
            Obj(<<Entry(COMPONENTS,
                    Obj(<<Entry(SCHEMAS,
                                Obj(<<Entry(<<"a">>, a), Entry(<<"b">>, b)>>)),
                          Entry(section, Obj(<<Entry(<<"r">>, r)>>))>>))>>)
    IN  {doc(a, b, section, r) :
            a \in {Leaf, Obj(<<Entry(KeyX, Leaf)>>)},
            b \in {Leaf, Ref(ptr(<<"a">>)), Arr(<<Ref(ptr(<<"a">>)), Leaf>>)},
            section \in Sections \ {SCHEMAS},
            r \in {Leaf, Ref(ptr(<<"b">>))}}

CallParseJsonPointer ==
    /\ call = NoCall
    /\ \E pointer \in AllPtrs \cup {PtrUrl, PtrMissingInner, <<"#">>, <<>>} :
          /\ call' = [fn |-> "parseJsonPointer", args |-> <<pointer>>]
          /\ effect' = parseJsonPointerExport(pointer)
    /\ UNCHANGED <<resolverVars, retryVars, pageVars, restVars>>

CallResolvePointer ==
    /\ call = NoCall
    /\ \E path \in {parseJsonPointer(p).path : p \in InternalPtrs \cup {PtrMissing}} :
          /\ call' = [fn |-> "resolvePointer", args |-> <<document, path>>]
          /\ effect' = resolvePointerExport(document, path)
    /\ UNCHANGED <<resolverVars, retryVars, pageVars, restVars>>

CallResolveRefs ==
    /\ call = NoCall
    /\ \E sch \in {Child(document, i) : i \in 1..Size(document)} \cup Fragments :
       \E opts \in Options :
          /\ call' = [fn |-> "resolveRefs", args |-> <<sch, document, opts>>]
          /\ effect' = resolveRefsExport(sch, document, opts)
    /\ UNCHANGED <<resolverVars, retryVars, pageVars, restVars>>

CallResolveDocument ==
    /\ call = NoCall
    /\ \E opts \in Options :
          /\ call' = [fn |-> "resolveDocument", args |-> <<document, opts>>]
          /\ effect' = resolveDocumentExport(document, opts)
    /\ UNCHANGED <<resolverVars, retryVars, pageVars, restVars>>

CallHasUnresolvedRefs ==
    /\ call = NoCall
    /\ \E sch \in {document} \cup Fragments :
          /\ call' = [fn |-> "hasUnresolvedRefs", args |-> <<sch>>]
          /\ effect' = hasUnresolvedRefsExport(sch)
    /\ UNCHANGED <<resolverVars, retryVars, pageVars, restVars>>

CallCollectRefs ==
    /\ call = NoCall
    /\ \E sch \in {document} \cup Fragments :
          /\ call' = [fn |-> "collectRefs", args |-> <<sch>>]
          /\ effect' = collectRefsExport(sch)
    /\ UNCHANGED <<resolverVars, retryVars, pageVars, restVars>>

ResolverIdle ==
    /\ schema = Undef
    /\ input = NoAddr
    /\ options = [circularHandling |-> "error", maxDepth |-> DefaultMaxDepth,
                  mutate |-> FALSE]
    /\ snapshot = [schema |-> Undef, doc |-> Undef]
    /\ stack = <<>>
    /\ ret = NoRet
    /\ visited = {}
    /\ resolved = {}
    /\ circular = {}
    /\ derefs = [p \in {} |-> 0]
    /\ maxSeen = 0
    /\ steps = 0
    /\ pc = "idle"
    /\ result = Undef
    /\ error = NoError

ExportsInit ==
    /\ document \in SpecialDocs \cup OpenAPIDocuments
    /\ ResolverIdle
    /\ ExportsIdle
    /\ RetryIdle
    /\ PageIdle
    /\ RestIdle

ExportsNext ==
    \/ CallParseJsonPointer
    \/ CallResolvePointer
    \/ CallResolveRefs
    \/ CallResolveDocument
    \/ CallHasUnresolvedRefs
    \/ CallCollectRefs

ExportsSpec == ExportsInit /\ [][ExportsNext]_vars

C12_ResolveDocumentPerEntry ==
    LET components == Get(document, COMPONENTS)
        \* the component entries as <<section, name, entry>>
        entries ==
            UNION {{<<section, Get(components, section).entries[i].k,
                      Get(components, section).entries[i].v>> :
                        i \in 1..Size(Get(components, section))} :
                   section \in {sec \in Sections : HasKey(components, sec)}}
    IN  (call.fn = "resolveDocument" /\ HasKey(document, COMPONENTS)
            /\ Acyclic(document)) =>
            /\ effect.returned
            /\ \A e \in entries :
                  Get(Get(Get(effect.value.resolved, COMPONENTS), e[1]), e[2])
                      = Inline(e[3])
            /\ effect.value.resolvedRefs
                  = UNION {ReachableFrom(e[3]) : e \in entries}
            /\ effect.value.circularRefs = {}

(***************************************************************************)
(* Exercise 02: withRetry as HINT 7 gives it and sleep as HINT 2 gives it. *)
(* fn is the caller's function: each invocation resolves or rejects with   *)
(* an error of the caller's choosing.  The log records, in order, every  *)
(* fn invocation and how it settled, every onRetry call and every sleep.   *)
(***************************************************************************)
\* the largest maxRetries a caller passes
MaxRetries == 3

HTTPError(status) == [kind |-> "http", status |-> status]

\* new DOMException('Aborted', 'AbortError')
AbortError == [kind |-> "abort", status |-> 0]

\* the errors fn rejects with: three HTTPErrors and a ConnectionError
Errors ==
    {HTTPError(400), HTTPError(429), HTTPError(500),
     [kind |-> "connection", status |-> 0]}

isRetriableAlways(err) == TRUE

\* 408, 409, 429, 5xx and connection errors
isRetriable(err) ==
    \/ err.kind = "connection"
    \/ err.kind = "http" /\ (err.status \in {408, 409, 429} \/ err.status >= 500)

\* HINT 3 and HINT 4; the jitter factor is halves / 2, drawn from [0.5, 1.5]
calculateDelay(n, opts, halves) ==
    LET delay == IF opts.baseDelay * 2 ^ n < opts.maxDelay
                 THEN opts.baseDelay * 2 ^ n
                 ELSE opts.maxDelay
    IN  (delay * halves) \div 2

Event(e, n, err, delay) == [e |-> e, n |-> n, error |-> err, delay |-> delay]

\* attempts counts the invocations of fn, the successful one included
ResolvedCountingCalls(data, attempts) ==
    [state |-> "resolved", data |-> data, attempts |-> attempts + 1,
     error |-> NoFailure]

\* line 313: return { data: result, attempts: attempt }
Resolved(data, attempts) ==
    [state |-> "resolved", data |-> data, attempts |-> attempts,
     error |-> NoFailure]

Rejected(err) ==
    [state |-> "rejected", data |-> "", attempts |-> 0, error |-> err]

giveUpOneEarly(err, n, maxRetries) ==
    ~isRetriable(err) \/ n + 1 = maxRetries

\* line 315: if (!isRetriable(error) || attempt === maxRetries) throw error
giveUp(err, n, maxRetries) ==
    ~isRetriable(err) \/ n = maxRetries

retryNumberFromZero(n) == n

\* line 317: the attempt argument of onRetry
retryNumber(n) == n + 1

abortListenerMissing(pcv) == pcv

\* HINT 2, the 'abort' listener: clearTimeout, reject
abortListener(pcv) == IF pcv = "sleeping" THEN "done" ELSE pcv

\* the head of the for loop with attempt = n: fn is invoked, or the loop ends
\* and withRetry returns undefined
LoopHead(n, maxRetries) ==
    /\ attempt' = n
    /\ IF n <= maxRetries
       THEN /\ retryPc' = "fn"
            /\ log' = Append(log, Event("fn", n, NoFailure, 0))
            /\ settled' = Pending
       ELSE /\ retryPc' = "done"
            /\ log' = log
            /\ settled' = Resolved("undefined", 0)

withRetry ==
    /\ retryPc = "idle"
    /\ \E maxRetries \in 0..MaxRetries, onRetry \in BOOLEAN,
          signal \in {"none", "live", "aborted"} :
          /\ retryOptions' = [maxRetries |-> maxRetries, baseDelay |-> BaseDelay,
                              maxDelay |-> MaxDelay, onRetry |-> onRetry,
                              signal |-> signal # "none"]
          /\ aborted' = (signal = "aborted")
          /\ LoopHead(0, maxRetries)
    /\ UNCHANGED <<resolverVars, exportVars, pageVars, restVars>>

\* fn() resolved: return { data: result, attempts: attempt }
FnResolves ==
    /\ retryPc = "fn"
    /\ retryPc' = "done"
    /\ settled' = Resolved("success", attempt)
    /\ log' = Append(log, Event("resolved", attempt, NoFailure, 0))
    /\ UNCHANGED <<attempt, retryOptions, aborted>>
    /\ UNCHANGED <<resolverVars, exportVars, pageVars, restVars>>

\* fn() rejected: the catch block, up to the await of sleep
FnRejects ==
    /\ retryPc = "fn"
    /\ \E err \in Errors, halves \in {1, 2, 3} :
          LET failed == Append(log, Event("rejected", attempt, err, 0))
              delay == calculateDelay(attempt, retryOptions, halves)
              told == IF retryOptions.onRetry
                      THEN Append(failed, Event("onRetry", retryNumber(attempt),
                                                err, delay))
                      ELSE failed
          IN  IF giveUp(err, attempt, retryOptions.maxRetries)
              THEN /\ retryPc' = "done"
                   /\ settled' = Rejected(err)
                   /\ log' = failed
              ELSE IF retryOptions.signal /\ aborted
              THEN \* sleep: if (signal?.aborted) reject
                   /\ retryPc' = "done"
                   /\ settled' = Rejected(AbortError)
                   /\ log' = Append(told, Event("sleepAborted", attempt, err, delay))
              ELSE /\ retryPc' = "sleeping"
                   /\ settled' = settled
                   /\ log' = Append(told, Event("sleep", attempt, err, delay))
    /\ UNCHANGED <<attempt, retryOptions, aborted>>
    /\ UNCHANGED <<resolverVars, exportVars, pageVars, restVars>>

\* the timer of sleep fired: the loop goes round
TimeoutFires ==
    /\ retryPc = "sleeping"
    /\ LoopHead(attempt + 1, retryOptions.maxRetries)
    /\ UNCHANGED <<retryOptions, aborted>>
    /\ UNCHANGED <<resolverVars, exportVars, pageVars, restVars>>

\* controller.abort() while the call is under way
Abort ==
    /\ retryPc \in {"fn", "sleeping"}
    /\ retryOptions.signal
    /\ ~aborted
    /\ aborted' = TRUE
    /\ retryPc' = abortListener(retryPc)
    /\ IF retryPc' # retryPc
       THEN /\ settled' = Rejected(AbortError)
            /\ log' = Append(log, Event("sleepAborted", attempt, AbortError, 0))
       ELSE UNCHANGED <<settled, log>>
    /\ UNCHANGED <<attempt, retryOptions>>
    /\ UNCHANGED <<resolverVars, exportVars, pageVars, restVars>>

RetryInit ==
    /\ document = Null
    /\ ResolverIdle
    /\ ExportsIdle
    /\ RetryIdle
    /\ PageIdle
    /\ RestIdle

RetryNext ==
    \/ withRetry
    \/ FnResolves
    \/ FnRejects
    \/ TimeoutFires
    \/ Abort

RetrySpec == RetryInit /\ [][RetryNext]_vars

\* the places of the log where `e` happened
Where(e) == {i \in DOMAIN log : log[i].e = e}

FnCalls == Cardinality(Where("fn"))

\* every fn invocation of the finished call rejected with a retriable error
AllFailedRetriable ==
    /\ retryPc = "done"
    /\ Where("resolved") = {}
    /\ \A i \in Where("rejected") : isRetriable(log[i].error)

LastError ==
    LET i == CHOOSE j \in Where("rejected") : \A k \in Where("rejected") : k <= j
    IN  log[i].error

(***************************************************************************)
(* C13 as stated.  withRetry invokes fn at most maxRetries + 1 times, and  *)
(* when every invocation fails with a retriable error it rejects with the  *)
(* last error after exactly maxRetries + 1 invocations (exactly one when   *)
(* maxRetries is 0).                                                       *)
(***************************************************************************)
C13_ExhaustsRetries ==
    /\ FnCalls <= retryOptions.maxRetries + 1
    /\ AllFailedRetriable =>
          /\ settled = Rejected(LastError)
          /\ FnCalls = retryOptions.maxRetries + 1

(***************************************************************************)
(* C13 as amended.  withRetry invokes fn at most maxRetries + 1 times, and *)
(* when every invocation fails with a retriable error and the abort signal *)
(* cuts no sleep short, it rejects with the last error after exactly       *)
(* maxRetries + 1 invocations (exactly one when maxRetries is 0).          *)
(***************************************************************************)
C13_ExhaustsRetriesUnlessAborted ==
    /\ FnCalls <= retryOptions.maxRetries + 1
    /\ (AllFailedRetriable /\ Where("sleepAborted") = {}) =>
          /\ settled = Rejected(LastError)
          /\ FnCalls = retryOptions.maxRetries + 1

\* maxRetries 2, three retriable failures, the last one a 500
C13_Witness ==
    /\ retryOptions.maxRetries = 2
    /\ AllFailedRetriable
    /\ Where("sleepAborted") = {}
    /\ FnCalls = 3
    /\ settled = Rejected(HTTPError(500))

(***************************************************************************)
(* C14.  When fn fails with a non-retriable error (a 400), withRetry       *)
(* rejects with that same error at once: nothing follows the failure, so   *)
(* fn is not invoked again, nothing sleeps and onRetry is not called.      *)
(***************************************************************************)
C14_NonRetriableRejectsAtOnce ==
    \A i \in Where("rejected") :
        log[i].error = HTTPError(400) =>
            /\ i = Len(log)
            /\ retryPc = "done"
            /\ settled = Rejected(HTTPError(400))

\* a 400 on the first retry, with retries left and an onRetry callback
C14_Witness ==
    /\ settled = Rejected(HTTPError(400))
    /\ retryOptions.onRetry
    /\ attempt = 1
    /\ retryOptions.maxRetries = 3

OnRetryCalls == Cardinality(Where("onRetry"))

\* with a callback, each retry is announced once, in order, before its sleep
OnRetryInOrder ==
    /\ \A i \in Where("fn") :
          log[i].n >= 1 =>
              /\ i > 3
              /\ log[i - 1].e = "sleep"
              /\ log[i - 2].e = "onRetry" /\ log[i - 2].n = log[i].n
              /\ log[i - 3].e = "rejected"
    /\ \A i \in Where("onRetry") :
          /\ log[i].n = Cardinality({j \in Where("onRetry") : j <= i})
          /\ log[i - 1].e = "rejected" /\ log[i - 1].error = log[i].error
          /\ i < Len(log) /\ log[i + 1].e \in {"sleep", "sleepAborted"}

(***************************************************************************)
(* C15 as stated.  onRetry is invoked exactly once before each retry,      *)
(* before the sleep and the re-invocation of fn, with the attempt numbers  *)
(* 1, 2, ... in order; the number of onRetry calls is the number of fn     *)
(* invocations minus one, so it is never invoked after the final failure   *)
(* or on first-try success.                                                *)
(***************************************************************************)
C15_OnRetryOncePerRetry ==
    retryOptions.onRetry =>
        /\ OnRetryInOrder
        /\ retryPc = "done" => OnRetryCalls = FnCalls - 1

(***************************************************************************)
(* C15 as amended.  onRetry is invoked exactly once before each retry,     *)
(* before the sleep and the re-invocation of fn, with the attempt numbers  *)
(* 1, 2, ... in order; unless the abort signal cut a sleep short, the      *)
(* number of onRetry calls of a finished call is the number of fn          *)
(* invocations minus one (it is not invoked after the final failure or on  *)
(* first-try success); when the abort signal cut the sleep short the retry *)
(* that onRetry announced did not happen and the two numbers are equal.    *)
(***************************************************************************)
C15_OnRetryOncePerRetryUnlessAborted ==
    retryOptions.onRetry =>
        /\ OnRetryInOrder
        /\ (retryPc = "done" /\ Where("sleepAborted") = {}) =>
               OnRetryCalls = FnCalls - 1
        /\ (retryPc = "done" /\ Where("sleepAborted") # {}) =>
               OnRetryCalls = FnCalls

\* two retries were announced and made, then fn resolved
C15_Witness ==
    /\ retryOptions.onRetry
    /\ settled = Resolved("success", 2)
    /\ OnRetryCalls = 2
    /\ FnCalls = 3

(***************************************************************************)
(* C16.  When the signal is aborted while withRetry sleeps, the sleep      *)
(* rejects and withRetry rejects with it: the call is never left sleeping  *)
(* on an aborted signal, and nothing follows the rejected sleep, so fn is  *)
(* not invoked again.                                                      *)
(***************************************************************************)
C16_AbortDuringSleepRejects ==
    /\ (retryOptions.signal /\ aborted) => retryPc # "sleeping"
    /\ \A i \in Where("sleepAborted") :
          /\ i = Len(log)
          /\ retryPc = "done"
          /\ settled = Rejected(AbortError)

\* the second sleep of a call was under way when the signal was aborted
C16_Witness ==
    /\ Len(log) > 1
    /\ log[Len(log)].e = "sleepAborted"
    /\ log[Len(log) - 1].e = "sleep"
    /\ FnCalls = 2
    /\ retryOptions.maxRetries = 3

(***************************************************************************)
(* Exercise 03: the Page class as HINT 1, HINT 2 and HINT 3 give it.  The  *)
(* fetcher answers its n-th call with the n-th response of its script and  *)
(* every later call with the last one (jest's mockResolvedValueOnce and    *)
(* mockResolvedValue).  An optional value is the empty set when absent.    *)
(***************************************************************************)
\* the most responses a script holds
MaxScript == 2

\* fetcher calls one iteration may make; one that needs more is stuck
MaxFetches == 4

\* the p-th response holds up to two items, 10p + 1 and 10p + 2, and may
\* carry { cursor: p } as nextPageParams
Scripts ==
    LET responses(p) ==
            [data : {<<>>, <<10 * p + 1>>, <<10 * p + 1, 10 * p + 2>>},
             hasMore : BOOLEAN,
             nextPageParams : {{}, {[kind |-> "cursor", n |-> p]}}]
        any == UNION {responses(p) : p \in 1..MaxScript}
    IN  UNION {{s \in [1..n -> any] : \A p \in 1..n : s[p] \in responses(p)} :
               n \in 1..MaxScript}

\* Page.hasNextPage: whether there are more pages; false before any fetch
hasNextPage(page) == page.hasMore

paramsForInitialOnly(page, opts) ==
    IF opts.initialParams # {} THEN CHOOSE x \in opts.initialParams : TRUE
    ELSE [kind |-> "empty", n |-> 0]

\* line 339: this._nextParams ?? this._options.initialParams ?? {}
paramsFor(page, opts) ==
    IF page.nextParams # {} THEN CHOOSE x \in page.nextParams : TRUE
    ELSE IF opts.initialParams # {} THEN CHOOSE x \in opts.initialParams : TRUE
    ELSE [kind |-> "empty", n |-> 0]

reachedLimitOnePast(count, opts) == \E n \in opts.maxItems : count > n

\* line 322: itemCount >= maxItems, maxItems being Infinity when absent
reachedLimit(count, opts) == \E n \in opts.maxItems : count >= n

\* HINT 3 up to the call of the fetcher
getNextPage(page) ==
    IF page.nextParams = {} /\ page.fetched
    THEN [pc |-> "failed", yield |-> <<>>, params |-> <<>>]
    ELSE [pc |-> "fetching", yield |-> <<>>,
          params |-> <<paramsFor(page, pageOptions)>>]

\* the loop with the next page requested along with the last item of a page
AdvancePrefetching(page, i, count) ==
    IF i <= Len(page.data)
    THEN IF reachedLimit(count, pageOptions)
         THEN [pc |-> "done", yield |-> <<>>, params |-> <<>>]
         ELSE [pc |-> "suspended", yield |-> <<page.data[i]>>,
               params |-> IF i = Len(page.data) /\ hasNextPage(page)
                          THEN <<paramsFor(page, pageOptions)>> ELSE <<>>]
    ELSE IF ~hasNextPage(page)
    THEN [pc |-> "done", yield |-> <<>>, params |-> <<>>]
    ELSE getNextPage(page)

\* HINT 2, the while loop from place i of the for loop on: up to the next
\* yield, return, throw or fetcher call
Advance(page, i, count) ==
    IF i <= Len(page.data)
    THEN IF reachedLimit(count, pageOptions)
         THEN [pc |-> "done", yield |-> <<>>, params |-> <<>>]
         ELSE [pc |-> "suspended", yield |-> <<page.data[i]>>, params |-> <<>>]
    ELSE IF ~hasNextPage(page)
    THEN [pc |-> "done", yield |-> <<>>, params |-> <<>>]
    ELSE getNextPage(page)

\* the iterator takes the step `step` with these locals
Continue(step, page, i, count) ==
    /\ Len(fetches) + Len(step.params) <= MaxFetches
    /\ iterPc' = step.pc
    /\ currentPage' = page
    /\ pos' = i
    /\ itemCount' = count
    /\ yielded' = yielded \o step.yield
    /\ fetches' = fetches \o step.params
    /\ UNCHANGED <<script, pageOptions>>
    /\ UNCHANGED <<resolverVars, exportVars, retryVars, restVars>>

\* new Page(fetcher, options)
Construct ==
    /\ iterPc = "idle"
    /\ iterPc' = "constructed"
    /\ script' \in Scripts
    /\ pageOptions' \in [initialParams : {{}, {[kind |-> "initial", n |-> 0]}},
                         maxItems : {{}, {0}, {1}, {3}},
                         maxPages : {{}, {1}, {2}}]
    /\ currentPage' = EmptyPage
    /\ UNCHANGED <<fetches, pos, itemCount, yielded>>
    /\ UNCHANGED <<resolverVars, exportVars, retryVars, restVars>>

\* the consumer's first next(): lines 311-318
Iterate ==
    /\ iterPc = "constructed"
    /\ IF ~currentPage.fetched
       THEN Continue(getNextPage(currentPage), currentPage, 0, 0)
       ELSE Continue(Advance(currentPage, 1, 0), currentPage, 1, 0)

\* the fetcher's promise resolved: lines 340-348, then the loop goes on
FetcherResponds ==
    /\ iterPc = "fetching"
    /\ LET n == IF Len(fetches) < Len(script) THEN Len(fetches) ELSE Len(script)
           response == script[n]
           nextPage == [data |-> response.data, hasMore |-> response.hasMore,
                        nextParams |-> response.nextPageParams, fetched |-> TRUE]
       IN  Continue(Advance(nextPage, 1, itemCount), nextPage, 1, itemCount)

\* the consumer's next() after an item: itemCount++, the for loop goes on
Resume ==
    /\ iterPc = "suspended"
    /\ Continue(Advance(currentPage, pos + 1, itemCount + 1), currentPage,
                pos + 1, itemCount + 1)

\* the consumer leaves its for await loop after an item
Break ==
    /\ iterPc = "suspended"
    /\ iterPc' = "stopped"
    /\ UNCHANGED <<script, pageOptions, fetches, currentPage, pos, itemCount,
                   yielded>>
    /\ UNCHANGED <<resolverVars, exportVars, retryVars, restVars>>

PageInit ==
    /\ document = Null
    /\ ResolverIdle
    /\ ExportsIdle
    /\ RetryIdle
    /\ PageIdle
    /\ RestIdle

PageNext ==
    \/ Construct
    \/ Iterate
    \/ FetcherResponds
    \/ Resume
    \/ Break

PageSpec == PageInit /\ [][PageNext]_vars

\* the response to the k-th fetcher call
ResponseAt(k) == script[IF k < Len(script) THEN k ELSE Len(script)]

\* the fetcher calls answered so far
Answered == IF iterPc = "fetching" THEN Len(fetches) - 1 ELSE Len(fetches)

\* the items of the first k responses, in order
RECURSIVE ItemsOf(_)
ItemsOf(k) == IF k = 0 THEN <<>> ELSE ItemsOf(k - 1) \o ResponseAt(k).data

\* the iteration is over: it returned or it threw
Over == iterPc \in {"done", "failed"}

\* each call but the first passes the nextPageParams of the response before
ParamsChained ==
    /\ fetches # <<>> => fetches[1] = paramsFor(EmptyPage, pageOptions)
    /\ \A k \in 2..Len(fetches) : ResponseAt(k - 1).nextPageParams = {fetches[k]}

Available ==
    LET ends == {k \in 1..MaxFetches :
                    ~ResponseAt(k).hasMore \/ ResponseAt(k).nextPageParams = {}}
    IN  IF ends = {} THEN -1
        ELSE Len(ItemsOf(CHOOSE k \in ends : \A j \in ends : k <= j))

(***************************************************************************)
(* C18.  With maxItems = n, item-level iteration never yields more than n  *)
(* items and, once over, has yielded exactly min(n, the items available):  *)
(* it stops in the middle of a page when the limit falls there.            *)
(***************************************************************************)
C18_MaxItems ==
    \A n \in pageOptions.maxItems :
        /\ Len(yielded) <= n
        /\ Over =>
              Len(yielded) = IF Available = -1 \/ n < Available THEN n ELSE Available

\* maxItems 3 fell on the first of the two items of the second page
C18_Witness ==
    /\ iterPc = "done"
    /\ pageOptions.maxItems = {3}
    /\ Len(yielded) = 3
    /\ Len(fetches) = 2
    /\ pos = 2
    /\ Len(currentPage.data) = 2

(***************************************************************************)
(* C19.  With maxPages = k, iteration calls the fetcher at most k times    *)
(* regardless of hasMore, and yields only the items of those first k       *)
(* pages.                                                                  *)
(***************************************************************************)
C19_MaxPages ==
    \A k \in pageOptions.maxPages :
        /\ Len(fetches) <= k
        /\ Len(yielded) <= Len(ItemsOf(k))

\* the least number of pages that hold the first n items
PagesFor(n) == CHOOSE m \in 0..MaxFetches :
                  /\ Len(ItemsOf(m)) >= n
                  /\ \A j \in 0..(m - 1) : Len(ItemsOf(j)) < n

(***************************************************************************)
(* C20.  Page fetching is lazy: a Page just constructed has called the     *)
(* fetcher zero times, its data is empty and hasNextPage() is false; and   *)
(* while the consumer holds an item, or has stopped after one, the fetcher *)
(* has been called exactly once for each page up to the one that item is   *)
(* of, and for no page beyond it.                                          *)
(***************************************************************************)
C20_LazyFetching ==
    /\ iterPc = "constructed" =>
          /\ fetches = <<>>
          /\ currentPage.data = <<>>
          /\ ~hasNextPage(currentPage)
    /\ iterPc \in {"suspended", "stopped"} =>
          Len(fetches) = PagesFor(Len(yielded))

\* the consumer broke on the first item of the second page; more was to come
C20_Witness ==
    /\ iterPc = "stopped"
    /\ Len(fetches) = 2
    /\ Len(yielded) = 2
    /\ Len(currentPage.data) = 2
    /\ currentPage.hasMore

(***************************************************************************)
(* Exercise 03, several consumers of one fetcher: iterators obtained from  *)
(* Page instances, each with the locals of HINT 2, and a caller of         *)
(* getNextPage (HINT 3).  The fetcher either counts its calls, as the one  *)
(* of the independent iteration test does, or answers by the params it is  *)
(* passed: the response after { cursor: p } is the one after response p.   *)
(***************************************************************************)
\* fetcher calls all consumers together may make
MaxCalls == 4

Iterators == {"a", "b"}

Fetchers == {"byCall", "byParams"}

\* the scripts of two or more pages, two items in the first and one in each
\* later page
InstanceScripts ==
    {s \in Scripts : /\ Len(s) > 1
                     /\ Len(s[1].data) = 2
                     /\ \A p \in 2..Len(s) : Len(s[p].data) = 1}

\* the response the fetcher will resolve with, chosen when it is called
respond(kind, params, callsBefore) ==
    LET n == IF kind = "byCall" THEN callsBefore + 1
             ELSE IF params.kind = "cursor" THEN params.n + 1
             ELSE 1
    IN  IF n < Len(script) THEN n ELSE Len(script)

\* lines 342-346: the fields of the Page made from a response
nextPage(response) ==
    [data |-> response.data, hasMore |-> response.hasMore,
     nextParams |-> response.nextPageParams, fetched |-> TRUE]

\* the response is stored in the Page getNextPage was called on
storeInPlace(heap, this, page) ==
    [heap |-> [heap EXCEPT ![this] = page], at |-> this]

\* line 342: new Page(...), another instance than `this`
store(heap, this, page) ==
    [heap |-> Append(heap, page), at |-> Len(heap) + 1]

\* the iterator goes on from the newest Page instance
startPageNewest(this, heap) == Len(heap)

\* line 311: let currentPage = this
startPage(this, heap) == this

\* the Page instances the program holds: the one it constructed and the
\* ones getNextPage returned to it (an iterator's pages are its locals)
Held == {1} \cup {clients["m"].out[k] : k \in DOMAIN clients["m"].out}

\* client c takes the step `step` with these locals
Proceed(c, step, origin, at, i, count) ==
    /\ Len(fetches) + Len(step.params) <= MaxCalls
    /\ clients' =
           [clients EXCEPT
               ![c].pc = step.pc,
               ![c].from = origin,
               ![c].page = at,
               ![c].pos = i,
               ![c].count = count,
               ![c].out = @ \o step.yield,
               ![c].awaiting =
                   IF step.params = <<>> THEN 0
                   ELSE respond(fetcher, step.params[1], Len(fetches))]
    /\ fetches' = fetches \o step.params

\* new Page(fetcher, options)
NewPage ==
    /\ instances = <<>>
    /\ instances' = <<EmptyPage>>
    /\ script' \in InstanceScripts
    /\ pageOptions' \in [initialParams : {{}}, maxItems : {{}, {3}},
                         maxPages : {{}}]
    /\ fetcher' \in Fetchers
    /\ UNCHANGED <<clients, fetches, iterPc, currentPage, pos, itemCount, yielded>>
    /\ UNCHANGED <<resolverVars, exportVars, retryVars, timeoutVars,
                   concurrentVars, requestVars>>

\* page[Symbol.asyncIterator]() on instance i and the first next():
\* lines 311-318
Start(c, i) ==
    /\ c \in Iterators
    /\ i \in DOMAIN instances \cap Held
    /\ clients[c].pc = "idle"
    /\ LET at == startPage(i, instances)
           page == instances[at]
       IN  /\ IF ~page.fetched
              THEN Proceed(c, getNextPage(page), i, at, 0, 0)
              ELSE Proceed(c, Advance(page, 1, 0), i, at, 1, 0)
    /\ instances' = instances
    /\ UNCHANGED <<script, pageOptions, fetcher, iterPc, currentPage, pos, itemCount, yielded>>
    /\ UNCHANGED <<resolverVars, exportVars, retryVars, timeoutVars,
                   concurrentVars, requestVars>>

\* next() of iterator c after an item: itemCount++, the for loop goes on
NextItem(c) ==
    /\ c \in Iterators
    /\ clients[c].pc = "suspended"
    /\ Proceed(c, Advance(instances[clients[c].page], clients[c].pos + 1,
                          clients[c].count + 1),
               clients[c].from, clients[c].page, clients[c].pos + 1, clients[c].count + 1)
    /\ UNCHANGED <<instances, script, pageOptions, fetcher, iterPc, currentPage, pos, itemCount, yielded>>
    /\ UNCHANGED <<resolverVars, exportVars, retryVars, timeoutVars,
                   concurrentVars, requestVars>>

\* instances[i].getNextPage() called directly: lines 335-340
CallGetNextPage(i) ==
    /\ i \in DOMAIN instances \cap Held
    /\ clients["m"].pc # "fetching"
    /\ Proceed("m", getNextPage(instances[i]), 0, i, 0, 0)
    /\ UNCHANGED <<instances, script, pageOptions, fetcher, iterPc, currentPage, pos, itemCount, yielded>>
    /\ UNCHANGED <<resolverVars, exportVars, retryVars, timeoutVars,
                   concurrentVars, requestVars>>

\* the fetcher's promise of client c resolved: lines 340-348; an iterator
\* goes on with its loop, the caller of getNextPage has the new Page
Responds(c) ==
    /\ clients[c].pc = "fetching"
    /\ LET stored == store(instances, clients[c].page,
                           nextPage(script[clients[c].awaiting]))
       IN  /\ instances' = stored.heap
           /\ IF c \in Iterators
              THEN Proceed(c, Advance(stored.heap[stored.at], 1, clients[c].count),
                           clients[c].from, stored.at, 1, clients[c].count)
              ELSE Proceed(c, [pc |-> "returned", yield |-> <<stored.at>>,
                               params |-> <<>>],
                           clients[c].from, stored.at, 0, 0)
    /\ UNCHANGED <<script, pageOptions, fetcher, iterPc, currentPage, pos, itemCount, yielded>>
    /\ UNCHANGED <<resolverVars, exportVars, retryVars, timeoutVars,
                   concurrentVars, requestVars>>

InstancesInit ==
    /\ document = Null
    /\ ResolverIdle
    /\ ExportsIdle
    /\ RetryIdle
    /\ PageIdle
    /\ RestIdle

InstancesNext ==
    \/ NewPage
    \/ \E c \in Iterators, i \in DOMAIN instances : Start(c, i)
    \/ \E c \in Iterators : NextItem(c)
    \/ \E i \in DOMAIN instances : CallGetNextPage(i)
    \/ \E c \in Clients : Responds(c)

InstancesSpec == InstancesInit /\ [][InstancesNext]_vars

\* the items an iteration on its own yields from a fetched page on, the
\* fetcher having been called `calls` times, within `fuel` more calls
RECURSIVE AloneFrom(_, _, _)
AloneFrom(page, calls, fuel) ==
    IF ~hasNextPage(page) \/ getNextPage(page).pc = "failed" \/ fuel = 0
    THEN page.data
    ELSE page.data \o
         AloneFrom(nextPage(script[respond(fetcher, paramsFor(page, pageOptions),
                                           calls)]),
                   calls + 1, fuel - 1)

\* the first n elements of a sequence
Take(seq, n) == SubSeq(seq, 1, IF n < Len(seq) THEN n ELSE Len(seq))

\* the sequence an iteration on its own produces from instance i
Alone(i) ==
    LET all == IF instances[i].fetched
               THEN AloneFrom(instances[i], 0, MaxCalls)
               ELSE AloneFrom(nextPage(script[respond(fetcher,
                                  paramsFor(instances[i], pageOptions), 0)]),
                              1, MaxCalls)
    IN  IF pageOptions.maxItems = {} THEN all
        ELSE Take(all, CHOOSE n \in pageOptions.maxItems : TRUE)

\* iterator c produced what it would have produced on its own, so far
OwnSequence(c) ==
    /\ Len(clients[c].out) <= Len(Alone(clients[c].from))
    /\ clients[c].out = Take(Alone(clients[c].from), Len(clients[c].out))
    /\ clients[c].pc \in {"done", "failed"} =>
           clients[c].out = Alone(clients[c].from)

\* both iterators were obtained from the same Page instance
SameInstance ==
    /\ clients["a"].from # 0
    /\ clients["a"].from = clients["b"].from

(***************************************************************************)
(* C21 as stated.  Two iterators obtained from the same Page instance are  *)
(* independent: however their next() calls interleave, each produces the   *)
(* complete sequence it would produce on its own, from the first page on,  *)
(* and advancing one never changes which item the other yields next.       *)
(***************************************************************************)
C21_IndependentIterators ==
    SameInstance => \A c \in Iterators : OwnSequence(c)

(***************************************************************************)
(* C21, amended.  The same, for a fetcher whose response depends only on   *)
(* the params it is passed.                                                *)
(***************************************************************************)
C21_IndependentIteratorsOfPureFetcher ==
    (SameInstance /\ fetcher = "byParams") =>
        \A c \in Iterators : OwnSequence(c)

\* both iterators are in the middle of their iterations at once, on
\* different pages, each two items in
C21_Witness ==
    /\ SameInstance
    /\ fetcher = "byParams"
    /\ \A c \in Iterators : clients[c].pc = "suspended" /\ Len(clients[c].out) >= 2
    /\ clients["a"].page # clients["b"].page

\* the Page the last getNextPage call was made on, while the call is in
\* flight or after it threw
Receiver == instances[clients["m"].page]

(***************************************************************************)
(* C27.  On a Page that has been fetched and whose hasNextPage() is false, *)
(* getNextPage() rejects with an error and does not call the fetcher.      *)
(***************************************************************************)
C27_NoNextPageRejects ==
    (/\ clients["m"].pc \in {"fetching", "failed"}
     /\ Receiver.fetched
     /\ ~hasNextPage(Receiver))
        => clients["m"].pc = "failed"

(***************************************************************************)
(* C28.  getNextPage() returns a new Page instance and leaves the Page it  *)
(* was called on unchanged: whatever getNextPage() calls and iterations    *)
(* take place, no step changes the data or hasNextPage() of an instance    *)
(* that exists, and the Page a call returns is none of them.               *)
(***************************************************************************)
C28_GetNextPageLeavesPageUnchanged ==
    [][/\ \A i \in DOMAIN instances :
              /\ i \in DOMAIN instances'
              /\ instances'[i].data = instances[i].data
              /\ hasNextPage(instances'[i]) = hasNextPage(instances[i])
       /\ (clients["m"].pc = "fetching" /\ clients'["m"].pc = "returned") =>
              /\ clients'["m"].page \notin DOMAIN instances
              /\ clients'["m"].page \in DOMAIN instances']_vars

\* getNextPage was called on the first page and on the page that call
\* returned, and an iterator over the first page ran to its end
C28_Witness ==
    /\ clients["m"].pc = "returned"
    /\ Len(clients["m"].out) >= 2
    /\ \E c \in Iterators : clients[c].pc = "done" /\ Len(clients[c].out) >= 2

(***************************************************************************)
(* Exercise 05: one call of the function fetchWithTimeout(fetchFn,         *)
(* timeoutMs) returns, as HINT 4 gives it.  Time is counted in timer       *)
(* units; what is due at a time happens before time goes on.  fetchFn      *)
(* settles on its own at settlesAt and, if it honours the signal it is     *)
(* passed, rejects with an AbortError once that signal is aborted.         *)
(***************************************************************************)
\* the latest time anything is scheduled for
MaxTime == 4

\* the signal handed to fetchFn was aborted and fetchFn listens to it
abortReaches(c, ctl) == c.honoursSignal /\ ctl.aborted

timerDue == controller.timer = "armed" /\ now = fetchCall.timeoutMs

abortDue == callerSignal = "quiet" /\ now = fetchCall.abortAt

settleDue ==
    /\ underlying.state = "pending"
    /\ now = fetchCall.settlesAt \/ abortReaches(fetchCall, controller)

\* lines 528-533: the catch block
rethrown(err, ctl, sig) ==
    IF ctl.aborted /\ sig # "aborted" THEN "TimeoutError" ELSE err

\* wrappedFetch(input, init): lines 518-527, up to await fetchFn(...)
CallWrappedFetch ==
    /\ wrapped.state = "none"
    /\ fetchCall' \in [timeoutMs : 1..(MaxTime - 1),
                        honoursSignal : BOOLEAN,
                        settlesAt : 1..MaxTime,
                        outcome : {"resolved", "rejected"},
                        abortAt : 0..(MaxTime - 1)]
    /\ callerSignal' \in {"none", "quiet"}
    /\ (callerSignal' = "none") = (fetchCall'.abortAt = 0)
    /\ controller' = [aborted |-> FALSE, timer |-> "armed"]
    /\ underlying' = [state |-> "pending", error |-> "", at |-> 0]
    /\ wrapped' = [state |-> "pending", error |-> "", at |-> 0]
    /\ now' = 0
    /\ UNCHANGED <<resolverVars, exportVars, retryVars, pageVars, instanceVars,
                   concurrentVars, requestVars>>

\* time goes on
Elapse ==
    /\ wrapped.state # "none"
    /\ now < MaxTime
    /\ ~timerDue /\ ~abortDue /\ ~settleDue
    /\ now' = now + 1
    /\ UNCHANGED <<fetchCall, controller, callerSignal, underlying, wrapped>>
    /\ UNCHANGED <<resolverVars, exportVars, retryVars, pageVars, instanceVars,
                   concurrentVars, requestVars>>

\* line 519: the timer fires, controller.abort()
TimerFires ==
    /\ timerDue
    /\ controller' = [aborted |-> TRUE, timer |-> "fired"]
    /\ UNCHANGED <<now, fetchCall, callerSignal, underlying, wrapped>>
    /\ UNCHANGED <<resolverVars, exportVars, retryVars, pageVars, instanceVars,
                   concurrentVars, requestVars>>

\* the caller aborts init.signal; line 524: the listener aborts the controller
CallerAborts ==
    /\ abortDue
    /\ callerSignal' = "aborted"
    /\ controller' = [controller EXCEPT !.aborted = TRUE]
    /\ UNCHANGED <<now, fetchCall, underlying, wrapped>>
    /\ UNCHANGED <<resolverVars, exportVars, retryVars, pageVars, instanceVars,
                   concurrentVars, requestVars>>

\* fetchFn's promise settles; lines 527-536: await, catch and finally
UnderlyingSettles ==
    /\ settleDue
    /\ LET outcome == IF abortReaches(fetchCall, controller)
                      THEN [state |-> "rejected", error |-> "AbortError", at |-> now]
                      ELSE [state |-> fetchCall.outcome,
                            error |-> IF fetchCall.outcome = "rejected"
                                      THEN "NetworkError" ELSE "",
                            at |-> now]
       IN  /\ underlying' = outcome
           /\ wrapped' = IF outcome.state = "resolved" THEN outcome
                         ELSE [outcome EXCEPT
                                  !.error = rethrown(@, controller, callerSignal)]
    /\ controller' = [controller EXCEPT
                         !.timer = IF @ = "armed" THEN "cleared" ELSE @]
    /\ UNCHANGED <<now, fetchCall, callerSignal>>
    /\ UNCHANGED <<resolverVars, exportVars, retryVars, pageVars, instanceVars,
                   concurrentVars, requestVars>>

TimeoutInit ==
    /\ document = Null
    /\ ResolverIdle
    /\ ExportsIdle
    /\ RetryIdle
    /\ PageIdle
    /\ RestIdle

TimeoutNext ==
    \/ CallWrappedFetch
    \/ Elapse
    \/ TimerFires
    \/ CallerAborts
    \/ UnderlyingSettles

TimeoutSpec == TimeoutInit /\ [][TimeoutNext]_vars

\* the time is past t
Past(t) == now > t

(***************************************************************************)
(* C22.  A fetch wrapped by fetchWithTimeout(fetchFn, t) rejects as soon   *)
(* as t time units elapse without fetchFn's promise settling, with a       *)
(* TimeoutError, or the caller's signal aborts, with another error,        *)
(* whichever comes first, even when fetchFn ignores the abort signal and   *)
(* would settle later; if fetchFn's promise settles first its outcome is   *)
(* passed through.                                                         *)
(***************************************************************************)
C22_RejectsAtTimeoutOrAbort ==
    LET t == fetchCall.timeoutMs
        a == IF callerSignal = "none" THEN MaxTime + 1 ELSE fetchCall.abortAt
        s == fetchCall.settlesAt
    IN  wrapped.state # "none" =>
          /\ (t < a /\ t < s /\ Past(t)) =>
                 wrapped = [state |-> "rejected", error |-> "TimeoutError", at |-> t]
          /\ (a < t /\ a < s /\ Past(a)) =>
                 /\ wrapped.state = "rejected"
                 /\ wrapped.error # "TimeoutError"
                 /\ wrapped.at = a
          /\ (s < t /\ s < a /\ Past(s)) =>
                 /\ wrapped.state = fetchCall.outcome
                 /\ wrapped.at = s
                 /\ wrapped = underlying

\* `value` with every ref object whose $ref is p replaced by `by`
RECURSIVE Substitute(_, _, _)
Substitute(value, p, by) ==
    IF isRefObject(value)
    THEN IF RefPathOf(value) = p THEN by ELSE value
    ELSE IF value.t = "arr"
    THEN Arr([i \in 1..Len(value.items) |-> Substitute(value.items[i], p, by)])
    ELSE IF value.t = "obj"
    THEN Obj([i \in 1..Len(value.entries) |->
                 Entry(value.entries[i].k,
                       Substitute(value.entries[i].v, p, by))])
    ELSE value

\* the schema passed is the fragment at P, the refs nested in it all name
\* q, and the refs nested in the fragment at q all name P
MutualRefs(q) ==
    /\ DirectCall
    /\ q # InputPtr
    /\ ~isRefObject(snapshot.schema)
    /\ ~isRefObject(Pointee(q))
    /\ RefsIn(snapshot.schema) = {q}
    /\ RefsIn(Pointee(q)) = {InputPtr}

(***************************************************************************)
(* C23.  For a document where the fragment at P references Q and the       *)
(* fragment at Q references P, resolveRefs applied with the mark policy    *)
(* directly to the fragment at P returns the fragment with Q's shape       *)
(* inlined once and Q's reference back to P replaced by { $circular: P },  *)
(* with resolvedRefs = {Q} and circularRefs = {P}.                         *)
(***************************************************************************)
C23_MutualRefsMarkedOnce ==
    \A q \in InternalPtrs :
        (/\ pc = "done"
         /\ options.circularHandling = "mark"
         /\ ~options.mutate
         /\ options.maxDepth = DefaultMaxDepth
         /\ MutualRefs(q)) =>
            /\ result =
                   Substitute(snapshot.schema, q,
                       Substitute(Pointee(q), InputPtr,
                           Obj(<<Entry(CIRCULAR, Str(InputPtr))>>)))
            /\ resolved = {q}
            /\ circular = {InputPtr}

\* under the mark policy the call entered with a ref object whose pointer
\* is in visited returns the mapping of `key` to the pointer and does
\* nothing else: no call is made below it, no set but circularRefs changes
MarkedBy(key) ==
    \A p \in visited :
        (Reaches(p) /\ options.circularHandling = "mark") =>
            /\ ret' = Returned(Obj(<<Entry(key, Str(p))>>))
            /\ stack' = Pop
            /\ circular' = circular \cup {p}
            /\ UNCHANGED <<visited, resolved, derefs, maxSeen, document, pc>>

(***************************************************************************)
(* C24 as stated.  Under the mark policy the node that replaces a circular *)
(* reference is exactly the mapping { circular: <pointer> }, one key named *)
(* circular holding the pointer string, and nothing below that position    *)
(* is resolved further.                                                    *)
(***************************************************************************)
C24_MarkNodeKeyCircular == [][MarkedBy(<<"c", "i", "r", "c", "u", "l", "a", "r">>)]_vars

(***************************************************************************)
(* C24, amended.  The same with the key named $circular: the node is       *)
(* exactly { $circular: <pointer> }.                                       *)
(***************************************************************************)
C24_MarkNodeKeyDollarCircular == [][MarkedBy(CIRCULAR)]_vars

\* a: { x: { $ref: '#/b' } }, b: { x: { $ref: '#/a' } }, resolved from doc.a:
\* the result holds the node { $circular: '#/b' } and nothing below it
C24_Witness ==
    /\ pc = "done"
    /\ options.circularHandling = "mark"
    /\ circular = {PtrB}
    /\ result =
           Obj(<<Entry(KeyX, Obj(<<Entry(KeyX, Obj(<<Entry(KeyX,
               Obj(<<Entry(CIRCULAR, Str(PtrB))>>))>>))>>))>>)

(***************************************************************************)
(* Two resolveRefs calls over one document, each with its own resolution   *)
(* context, their statements interleaved.  The variables of the resolver   *)
(* hold the context of the call that runs; the context of the other call   *)
(* is parked.  The document is the one object both calls read.             *)
(***************************************************************************)
\* how often a call may be interrupted between two of its statements
MaxSwitches == 2

\* the context of the running call
Current ==
    [schema |-> schema, input |-> input, options |-> options,
     snapshot |-> snapshot, stack |-> stack, ret |-> ret, visited |-> visited,
     resolved |-> resolved, circular |-> circular, derefs |-> derefs,
     maxSeen |-> maxSeen, steps |-> steps, pc |-> pc, result |-> result,
     error |-> error]

\* the documents the two calls share: a cycle through nested references,
\* a cycle of three, and a diamond
ConcurrentDocs ==
    {Doc2(Obj(<<Entry(KeyX, Ref(PtrB))>>), Obj(<<Entry(KeyX, Ref(PtrA))>>)),
     Doc3(Obj(<<Entry(KeyX, Ref(PtrB))>>), Obj(<<Entry(KeyX, Ref(PtrC))>>),
          Obj(<<Entry(KeyX, Ref(PtrA))>>)),
     Doc3(Obj(<<Entry(KeyX, Ref(PtrB)), Entry(KeyY, Ref(PtrC))>>),
          Obj(<<Entry(KeyX, Ref(PtrC))>>), Leaf)}

\* the other call starts or runs on, the running call having ended or
\* being interrupted
Switch ==
    /\ pc # "idle"
    /\ parked.pc \notin {"done", "failed"}
    /\ pc = "running" => switches < MaxSwitches
    /\ switches' = IF pc = "running" THEN switches + 1 ELSE switches
    /\ parked' = Current
    /\ LET mine == parked
       IN  /\ schema' = mine.schema
           /\ input' = mine.input
           /\ options' = mine.options
           /\ snapshot' = mine.snapshot
           /\ stack' = mine.stack
           /\ ret' = mine.ret
           /\ visited' = mine.visited
           /\ resolved' = mine.resolved
           /\ circular' = mine.circular
           /\ derefs' = mine.derefs
           /\ maxSeen' = mine.maxSeen
           /\ steps' = mine.steps
           /\ pc' = mine.pc
           /\ result' = mine.result
           /\ error' = mine.error
    /\ UNCHANGED <<document, exportVars, retryVars, pageVars, instanceVars,
                   timeoutVars, requestVars>>

ConcurrentInit == Init /\ document \in ConcurrentDocs

\* a statement of the running call, a call being one on a schema of the
\* document with mutate false and the default maxDepth
RunningCallSteps ==
    /\ Next
    /\ ~options'.mutate
    /\ options'.maxDepth = DefaultMaxDepth
    /\ input'.root # "schema"

ConcurrentNext ==
    \/ RunningCallSteps
    \/ Switch

ConcurrentSpec == ConcurrentInit /\ [][ConcurrentNext]_vars

(***************************************************************************)
(* What one call returns or throws when it runs alone, computed from the   *)
(* document by structural recursion: the value, the two sets, or the       *)
(* error of the first reference that fails in traversal order.             *)
(***************************************************************************)
Failed(err) ==
    [ok |-> FALSE, value |-> Undef, resolved |-> {}, circular |-> {},
     error |-> err]

Done(value, res, circ) ==
    [ok |-> TRUE, value |-> value, resolved |-> res, circular |-> circ,
     error |-> NoError]

RECURSIVE RunAlone(_, _, _, _, _)
RECURSIVE RunAloneEach(_, _, _, _, _, _)
\* the values of `nodes` from the k-th on, resolved in order after `before`
RunAloneEach(nodes, k, before, vis, sets, handling) ==
    IF k > Len(nodes) THEN Done(before, sets.resolved, sets.circular)
    ELSE LET one == RunAlone(nodes[k], vis, sets.resolved, sets.circular, handling)
         IN  IF ~one.ok THEN one
             ELSE RunAloneEach(nodes, k + 1, Append(before, one.value), vis, one,
                            handling)

RunAlone(node, vis, res, circ, handling) ==
    IF isRefObject(node)
    THEN LET p == RefPathOf(node)
         IN  IF ~startsWith(p, <<"#">>) THEN Failed(Error("external", p))
             ELSE IF p \in vis
             THEN CASE handling = "error" -> Failed(Error("circular", p))
                    [] handling = "mark" ->
                           Done(Obj(<<Entry(CIRCULAR, Str(p))>>), res, circ \cup {p})
                    [] handling = "lazy" ->
                           Done(Obj(<<Entry(REF, Str(p))>>), res, circ \cup {p})
             ELSE IF ~parseJsonPointer(p).ok THEN Failed(Error("pointer", p))
             ELSE IF ~targetOf(p).ok THEN Failed(Error("path", <<>>))
             ELSE RunAlone(Pointee(p), vis \cup {p}, res \cup {p}, circ, handling)
    ELSE IF node.t = "arr"
    THEN LET all == RunAloneEach(node.items, 1, <<>>, vis,
                              [resolved |-> res, circular |-> circ], handling)
         IN  IF all.ok THEN [all EXCEPT !.value = Arr(@)] ELSE all
    ELSE IF node.t = "obj"
    THEN LET all == RunAloneEach([i \in 1..Len(node.entries) |-> node.entries[i].v],
                              1, <<>>, vis,
                              [resolved |-> res, circular |-> circ], handling)
         IN  IF all.ok
             THEN [all EXCEPT !.value =
                      Obj([i \in 1..Len(node.entries) |->
                              Entry(node.entries[i].k, @[i])])]
             ELSE all
    ELSE Done(node, res, circ)

\* the finished call with context c has the outcome it has when run alone
AsAlone(c) ==
    LET alone == RunAlone(c.snapshot.schema, {}, {}, {}, c.options.circularHandling)
    IN  /\ (c.pc = "done") = alone.ok
        /\ c.pc = "done" =>
               /\ c.result = alone.value
               /\ c.resolved = alone.resolved
               /\ c.circular = alone.circular
        /\ c.pc = "failed" => c.error = alone.error

\* the resolution contexts of the two calls
Contexts == {Current, parked}

(***************************************************************************)
(* C25.  Two resolveRefs calls running concurrently over the same document *)
(* with mutate false, each with its own resolution context, produce for    *)
(* every interleaving the results they produce when run one after the      *)
(* other, and the shared document stays as it was; the visited,            *)
(* resolvedRefs and circularRefs of a call hold refs of its own schema     *)
(* only.                                                                   *)
(***************************************************************************)
C25_ConcurrentCallsIndependent ==
    \A c \in Contexts :
        /\ c.pc \in {"done", "failed"} => AsAlone(c)
        /\ c.pc # "idle" =>
               /\ document = c.snapshot.doc
               /\ c.visited \cup c.resolved \cup c.circular
                      \subseteq ReachableFrom(c.snapshot.schema)

\* both calls returned, on different schemas of a cyclic document under the
\* mark policy, each having been interrupted by the other
C25_Witness ==
    /\ pc = "done"
    /\ parked.pc = "done"
    /\ switches >= 2
    /\ input # parked.input
    /\ options.circularHandling = "mark"
    /\ circular # {}
    /\ parked.circular # {}

(***************************************************************************)
(* C26.  When withRetry resolves, result.data is the value of the          *)
(* successful invocation and result.attempts is the number of failed       *)
(* invocations that preceded it: the number of fn invocations minus one,   *)
(* 0 when the first invocation succeeds.                                   *)
(***************************************************************************)
C26_AttemptsCountsFailures ==
    settled.state = "resolved" =>
        /\ Cardinality(Where("resolved")) = 1
        /\ log[Len(log)].e = "resolved"
        /\ settled.data = "success"
        /\ settled.attempts = Cardinality(Where("rejected"))
        /\ settled.attempts = FnCalls - 1

\* fn failed once and then succeeded, without an onRetry callback
C26_Witness ==
    /\ settled.state = "resolved"
    /\ settled.attempts = 1
    /\ FnCalls = 2
    /\ ~retryOptions.onRetry

(***************************************************************************)
(* Pure helpers, each applied once to an argument list: mapStatusToError   *)
(* of exercise 05 (HINT 5) over the error classes of that file, and        *)
(* parseJsonPointer of exercise 01 (HINT 1).                               *)
(***************************************************************************)
\* the HTTP status codes
Statuses == 100..599

\* the longest pointer text after "#/"
MaxPointerLen == 4

\* new APIError(message, status, body, headers)
APIError(name, message, status, body, headers) ==
    [name |-> name, message |-> message, status |-> status, body |-> body,
     headers |-> headers, retryAfter |-> {}]

\* RateLimitError.parseRetryAfter: parseInt(value, 10) of the retry-after
\* header, in milliseconds; undefined without the header or a leading digit
parseRetryAfter(headers) ==
    IF headers = {} THEN {}
    ELSE LET value == CHOOSE v \in headers : TRUE
             digits == {n \in 0..Len(value) :
                           \A i \in 1..n : IsDigit(value[i])}
             n == CHOOSE m \in digits : \A k \in digits : k <= m
         IN  IF n = 0 THEN {} ELSE {Decimal(SubSeq(value, 1, n)) * 1000}

BadRequestError(message, body, headers) ==
    APIError("BadRequestError", message, 400, body, headers)

AuthenticationError(message, body, headers) ==
    APIError("AuthenticationError", message, 401, body, headers)

PermissionDeniedError(message, body, headers) ==
    APIError("PermissionDeniedError", message, 403, body, headers)

NotFoundError(message, body, headers) ==
    APIError("NotFoundError", message, 404, body, headers)

RateLimitError(message, body, headers) ==
    [APIError("RateLimitError", message, 429, body, headers)
        EXCEPT !.retryAfter = parseRetryAfter(headers)]

InternalServerError(message, body, headers) ==
    APIError("InternalServerError", message, 500, body, headers)

\* every status of 400 and above is an internal server error
mapStatusToErrorFrom400(status, message, body, headers) ==
    IF status >= 400 THEN InternalServerError(message, body, headers)
    ELSE APIError("APIError", message, status, body, headers)

\* HINT 5
mapStatusToError(status, message, body, headers) ==
    CASE status = 400 -> BadRequestError(message, body, headers)
      [] status = 401 -> AuthenticationError(message, body, headers)
      [] status = 403 -> PermissionDeniedError(message, body, headers)
      [] status = 404 -> NotFoundError(message, body, headers)
      [] status = 429 -> RateLimitError(message, body, headers)
      [] OTHER ->
             IF status >= 500 THEN InternalServerError(message, body, headers)
             ELSE APIError("APIError", message, status, body, headers)

\* response bodies: none, or { error: 's' }
Bodies == {Undef, Obj(<<Entry(<<"e", "r", "r", "o", "r">>, Leaf)>>)}

\* no headers, or a retry-after header of '60' or 'x'
HeaderSets == {{}, {<<"6", "0">>}, {<<"x">>}}

CallMapStatusToError ==
    /\ call = NoCall
    /\ \E status \in Statuses, body \in Bodies, headers \in HeaderSets :
          /\ call' = [fn |-> "mapStatusToError",
                      args |-> <<status, "message", body, headers>>]
          /\ effect' = Returns(mapStatusToError(status, "message", body, headers))
    /\ UNCHANGED <<resolverVars, retryVars, pageVars, restVars>>

\* the characters pointers are written with
PointerChars == {"a", "/", "~", "0", "1"}

\* '#/' followed by up to MaxPointerLen characters
PointerTexts ==
    {Ptr(text) : text \in UNION {[1..n -> PointerChars] : n \in 0..MaxPointerLen}}

CallHintedParseJsonPointer ==
    /\ call = NoCall
    /\ \E pointer \in PointerTexts :
          /\ call' = [fn |-> "parseJsonPointer", args |-> <<pointer>>]
          /\ effect' = IF parseJsonPointer(pointer).ok
                       THEN Returns(parseJsonPointer(pointer).path)
                       ELSE Throws("Invalid JSON pointer")
    /\ UNCHANGED <<resolverVars, retryVars, pageVars, restVars>>

HelpersInit ==
    /\ document = Null
    /\ ResolverIdle
    /\ ExportsIdle
    /\ RetryIdle
    /\ PageIdle
    /\ RestIdle

HelpersNext ==
    \/ CallMapStatusToError
    \/ CallHintedParseJsonPointer

HelpersSpec == HelpersInit /\ [][HelpersNext]_vars

\* the error mapStatusToError returned for status s
Mapped(s) == call.fn = "mapStatusToError" /\ call.args[1] = s

\* the class each status has an error of
ClassOf(s) ==
    CASE s = 400 -> "BadRequestError"
      [] s = 401 -> "AuthenticationError"
      [] s = 403 -> "PermissionDeniedError"
      [] s = 404 -> "NotFoundError"
      [] s = 429 -> "RateLimitError"
      [] s >= 500 -> "InternalServerError"
      [] OTHER -> "APIError"

(***************************************************************************)
(* C29 as stated.  For every HTTP status s, mapStatusToError(s, message,   *)
(* body, headers) returns an error whose status field equals s and whose   *)
(* body is the given body, of class BadRequestError for 400,               *)
(* AuthenticationError for 401, PermissionDeniedError for 403,             *)
(* NotFoundError for 404, RateLimitError for 429 and InternalServerError   *)
(* for every s >= 500.                                                     *)
(***************************************************************************)
C29_StatusMappedToClass ==
    \A s \in Statuses :
        Mapped(s) =>
            /\ effect.returned
            /\ effect.value.status = s
            /\ effect.value.body = call.args[3]
            /\ s \in {400, 401, 403, 404, 429} \cup 500..599 =>
                   effect.value.name = ClassOf(s)

(***************************************************************************)
(* C29, amended.  The same, the status field being 500 for every           *)
(* s >= 500 and s otherwise.                                               *)
(***************************************************************************)
C29_StatusMappedToClassStatus500 ==
    \A s \in Statuses :
        Mapped(s) =>
            /\ effect.returned
            /\ effect.value.status = IF s >= 500 THEN 500 ELSE s
            /\ effect.value.body = call.args[3]
            /\ s \in {400, 401, 403, 404, 429} \cup 500..599 =>
                   effect.value.name = ClassOf(s)

\* 503 with a body was mapped to an InternalServerError
C29_Witness ==
    /\ Mapped(503)
    /\ call.args[3] # Undef
    /\ effect.value.name = "InternalServerError"
    /\ effect.value.body = call.args[3]

\* every '~' of the text is followed by '0' or '1' (RFC 6901)
WellEscaped(text) ==
    \A i \in 1..Len(text) :
        text[i] = "~" => i < Len(text) /\ text[i + 1] \in {"0", "1"}

\* a segment with '~' written '~0' and '/' written '~1'
RECURSIVE escapePointer(_)
escapePointer(segment) ==
    IF segment = <<>> THEN <<>>
    ELSE (CASE segment[1] = "~" -> <<"~", "0">>
            [] segment[1] = "/" -> <<"~", "1">>
            [] OTHER -> <<segment[1]>>)
         \o escapePointer(SubSeq(segment, 2, Len(segment)))

\* the segments from the k-th on, escaped and joined with '/'
RECURSIVE JoinEscaped(_, _)
JoinEscaped(path, k) ==
    IF k > Len(path) THEN <<>>
    ELSE (IF k > 1 THEN <<"/">> ELSE <<>>)
         \o escapePointer(path[k]) \o JoinEscaped(path, k + 1)

\* parseJsonPointer was applied to the pointer p
Parsed(p) == call.fn = "parseJsonPointer" /\ call.args[1] = p

\* '~1' unescapes to '/', '~0' to '~', and '~01' to '~1'
EscapesUnescaped ==
    /\ Parsed(Ptr(<<"~", "1">>)) => effect.value = <<<<"/">>>>
    /\ Parsed(Ptr(<<"~", "0">>)) => effect.value = <<<<"~">>>>
    /\ Parsed(Ptr(<<"~", "0", "1">>)) => effect.value = <<<<"~", "1">>>>

\* re-joining the parsed segments of p, escaped, gives back p
RoundTrip(p) ==
    Parsed(p) =>
        /\ effect.returned
        /\ Ptr(JoinEscaped(effect.value, 1)) = p

(***************************************************************************)
(* C30 as stated.  Pointer parsing and escaping round-trip: for every      *)
(* pointer p starting with '#/', re-joining parseJsonPointer(p) with '/'   *)
(* after re-escaping '~' as '~0' and '/' as '~1' in each segment gives     *)
(* back p; in particular '~1' unescapes to '/', '~0' to '~', and the       *)
(* source text '~01' unescapes to '~1' (tilde followed by 1), never to     *)
(* '/'.                                                                    *)
(***************************************************************************)
C30_PointerRoundTrip ==
    /\ \A p \in PointerTexts : RoundTrip(p)
    /\ EscapesUnescaped

(***************************************************************************)
(* C30, amended.  The same for every pointer in which each '~' is          *)
(* followed by '0' or '1'.                                                 *)
(***************************************************************************)
C30_WellEscapedPointerRoundTrip ==
    /\ \A p \in PointerTexts : WellEscaped(p) => RoundTrip(p)
    /\ EscapesUnescaped

\* '#/~01/' was parsed into the segments '~1' and ''
C30_Witness ==
    /\ Parsed(Ptr(<<"~", "0", "1", "/">>))
    /\ WellEscaped(call.args[1])
    /\ effect.value = <<<<"~", "1">>, <<>>>>

(***************************************************************************)
(* C31.  Stack discipline of the visited set: while a resolveRefs call     *)
(* runs, visited holds exactly the pointers whose target is being resolved *)
(* by an active call of the recursion chain; a step adds a pointer exactly *)
(* when it starts the resolution of the pointer's target and removes one   *)
(* exactly when that resolution returns, so visited is empty when the      *)
(* top-level call returns.                                                 *)
(***************************************************************************)
C31_VisitedIsActiveChain ==
    /\ pc = "running" => visited = ActiveChain
    /\ pc = "running" =>
           Cardinality(ActiveChain)
               = Cardinality({j \in 1..Len(stack) : stack[j].kind = "ref"})
    /\ (pc = "running" /\ stack = <<>>) => visited = {}
    /\ pc = "done" => visited = {}

\* the target of '#/a' is being resolved, and '#/b', dereferenced inside it,
\* has been resolved and taken out of visited again
C31_Witness ==
    /\ pc = "running"
    /\ visited = {PtrA}
    /\ PtrB \in resolved
    /\ Len(stack) > 1

(***************************************************************************)
(* C32.  A pointer is put in circularRefs if and only if a reference to it *)
(* is reached while the pointer's own target is being resolved by an       *)
(* active call of the chain: every step of a call adds to circularRefs     *)
(* exactly the pointer of such a reference, and nothing else.  A pointer   *)
(* whose target was resolved and left again, however often, is not         *)
(* flagged by that.                                                        *)
(***************************************************************************)
C32_CircularIffReachedOnChain ==
    [][pc = "running" =>
          circular' = circular \cup {p \in ActiveChain : Reaches(p)}]_vars

\* '#/b' was dereferenced twice in one call, each time inside the target of
\* '#/a' and each time left again: '#/a' is circular, '#/b' is not
C32_Witness ==
    /\ pc = "done"
    /\ PtrB \in DOMAIN derefs
    /\ derefs[PtrB] = 2
    /\ circular = {PtrA}

(***************************************************************************)
(* C33.  During one top-level call resolvedRefs and circularRefs only      *)
(* grow: no step of the resolution takes an element out of either set,     *)
(* and resolvedRefs holds every pointer whose target the call has          *)
(* dereferenced, those being resolved by an active call included.          *)
(***************************************************************************)
C33_SetsOnlyGrow ==
    [][pc = "running" =>
          /\ resolved \subseteq resolved'
          /\ circular \subseteq circular'
          /\ ActiveChain' \subseteq resolved'
          /\ DOMAIN derefs' \subseteq resolved']_vars

\* a call that dereferenced '#/a' and then, inside its target, '#/b', which
\* refers to itself, has returned with both pointers in resolvedRefs
C33_Witness ==
    /\ pc = "done"
    /\ snapshot.schema = Ref(PtrA)
    /\ resolved = {PtrA, PtrB}
    /\ circular = {PtrB}

(***************************************************************************)
(* A schema argument that carries a $ref string beside other keys, and     *)
(* the reference marker it carries, alone.                                 *)
(***************************************************************************)
RefWithSiblings(value) ==
    /\ value.t = "obj"
    /\ HasKey(value, REF)
    /\ Get(value, REF).t = "str"
    /\ Size(value) > 1

MarkerAlone(value) == Ref(RefPathOf(value))

Interceptors == {"none", "same", "other", "throws"}

ClientConfigs ==
    [onRequest : Interceptors, onResponse : Interceptors,
     onError : Interceptors, timeout : {{}, {1000}}]

RequestConfigs == [timeout : {{}, {500}}, parseJson : BOOLEAN]

\* the statuses the server answers with
ResponseStatuses == {200, 204, 404, 500}

\* new Request(url, { method, headers, body, signal })
Request(by) == [by |-> by]

Response(status, body, by) == [status |-> status, body |-> body, by |-> by]

RequestError(name, from) == [name |-> name, from |-> from]

Called(fn, arg) == [fn |-> fn, what |-> "called", arg |-> arg]

Came(fn, how, value) == [fn |-> fn, what |-> how, arg |-> value]

\* HINT 3
buildRequest == Request("buildRequest")

\* config.timeout || this.config.timeout: the wrapped fetch is used
usesTimeout(config, thisConfig) ==
    config.timeout # {} \/ thisConfig.timeout # {}

\* what fetchFn(request) rejects with when fetchImpl rejects with `name`:
\* the wrapper of HINT 4 is called without init, so no caller signal
fetchFnRejection(name, config, thisConfig, timerFired) ==
    IF usesTimeout(config, thisConfig)
    THEN RequestError(rethrown(name, [aborted |-> timerFired], "none"), "fetch")
    ELSE RequestError(name, "fetch")

\* how fetchImpl may settle
FetchOutcomes ==
    {[ok |-> TRUE, status |-> status, body |-> body, name |-> "",
      timerFired |-> FALSE] :
        status \in ResponseStatuses, body \in Bodies}
    \cup {[ok |-> FALSE, status |-> 0, body |-> Undef, name |-> name,
           timerFired |-> fired] :
             name \in {"TypeError", "AbortError"}, fired \in BOOLEAN}

\* String(n) of a three-digit status
StatusText(n) ==
    LET digit(k) == <<"0", "1", "2", "3", "4", "5", "6", "7", "8", "9">>[k + 1]
    IN  <<digit(n \div 100), digit((n \div 10) % 10), digit(n % 10)>>

ERROR == <<"e", "r", "r", "o", "r">>

\* HINT 6
handleResponse(resp, parseJson) ==
    IF resp.status \notin 200..299
    THEN LET body == IF resp.body = Undef THEN Str(<<>>) ELSE resp.body
             message == IF body.t = "obj" /\ HasKey(body, ERROR)
                        THEN Get(body, ERROR).v
                        ELSE <<"H", "T", "T", "P", " ">> \o StatusText(resp.status)
         IN  [threw |-> TRUE, value |-> Undef,
              error |-> mapStatusToError(resp.status, message, body, {})]
    ELSE IF resp.status = 204 \/ ~parseJson
    THEN [threw |-> FALSE, value |-> Undef, error |-> NoRequestError]
    ELSE IF resp.body = Undef
    THEN [threw |-> TRUE, value |-> Undef,
          error |-> RequestError("SyntaxError", "json")]
    ELSE [threw |-> FALSE, value |-> resp.body, error |-> NoRequestError]

RequestResolves(value) ==
    /\ requestPromise' = [state |-> "resolved", value |-> value,
                          error |-> NoRequestError]
    /\ requestPc' = "settled"

RequestRejects(err) ==
    /\ requestPromise' = [state |-> "rejected", value |-> Undef, error |-> err]
    /\ requestPc' = "settled"

\* mutant: await this.config.onError(error); throw error
thrownAfterOnErrorOriginal(caught, back) == caught

\* throw await this.config.onError(error as Error)
thrownAfterOnError(caught, back) == back

\* request(path, config) up to its first await
CallRequest ==
    /\ requestPc = "idle"
    /\ \E thisConfig \in ClientConfigs, config \in RequestConfigs :
          /\ clientConfig' = thisConfig
          /\ requestConfig' = config
          /\ request' = buildRequest
          /\ IF thisConfig.onRequest # "none"
             THEN /\ made' = <<Came("buildRequest", "returned", buildRequest),
                               Called("onRequest", buildRequest)>>
                  /\ requestPc' = "onRequest"
             ELSE /\ made' = <<Came("buildRequest", "returned", buildRequest),
                               Called("fetch", buildRequest)>>
                  /\ requestPc' = "fetch"
    /\ requestPromise' = [state |-> "pending", value |-> Undef,
                          error |-> NoRequestError]
    /\ UNCHANGED httpResponse
    /\ UNCHANGED <<resolverVars, exportVars, retryVars, pageVars, instanceVars,
                   timeoutVars, concurrentVars>>

\* request = await this.config.onRequest(request), then fetchFn(request)
OnRequestSettles ==
    /\ requestPc = "onRequest"
    /\ IF clientConfig.onRequest = "throws"
       THEN LET err == RequestError("Error", "onRequest")
            IN  /\ made' = Append(made, Came("onRequest", "threw", err))
                /\ RequestRejects(err)
                /\ UNCHANGED request
       ELSE LET back == IF clientConfig.onRequest = "same" THEN request
                        ELSE Request("onRequest")
            IN  /\ request' = back
                /\ made' = made \o <<Came("onRequest", "returned", back),
                                     Called("fetch", back)>>
                /\ requestPc' = "fetch"
                /\ UNCHANGED requestPromise
    /\ UNCHANGED <<clientConfig, requestConfig, httpResponse>>
    /\ UNCHANGED <<resolverVars, exportVars, retryVars, pageVars, instanceVars,
                   timeoutVars, concurrentVars>>

\* response = await fetchFn(request), the catch block up to onError, and
\* the call of onResponse or handleResponse
FetchSettles ==
    /\ requestPc = "fetch"
    /\ \E settles \in FetchOutcomes :
          /\ settles.timerFired => usesTimeout(requestConfig, clientConfig)
          /\ IF settles.ok
             THEN LET fetched == Response(settles.status, settles.body, "fetch")
                  IN  /\ httpResponse' = fetched
                      /\ made' = made \o
                             <<Came("fetch", "returned", fetched),
                               Called(IF clientConfig.onResponse # "none"
                                      THEN "onResponse" ELSE "handleResponse",
                                      fetched)>>
                      /\ requestPc' = IF clientConfig.onResponse # "none"
                                      THEN "onResponse" ELSE "handleResponse"
                      /\ UNCHANGED requestPromise
             ELSE LET err == fetchFnRejection(settles.name, requestConfig,
                                              clientConfig, settles.timerFired)
                  IN  /\ UNCHANGED httpResponse
                      /\ IF clientConfig.onError # "none"
                         THEN /\ made' = made \o <<Came("fetch", "threw", err),
                                                   Called("onError", err)>>
                              /\ requestPc' = "onError"
                              /\ UNCHANGED requestPromise
                         ELSE /\ made' = Append(made, Came("fetch", "threw", err))
                              /\ RequestRejects(err)
    /\ UNCHANGED <<clientConfig, requestConfig, request>>
    /\ UNCHANGED <<resolverVars, exportVars, retryVars, pageVars, instanceVars,
                   timeoutVars, concurrentVars>>

\* throw await this.config.onError(error as Error)
OnErrorSettles ==
    /\ requestPc = "onError"
    /\ LET caught == made[Len(made)].arg
       IN  IF clientConfig.onError = "throws"
           THEN LET err == RequestError("Error", "onError threw")
                IN  /\ made' = Append(made, Came("onError", "threw", err))
                    /\ RequestRejects(err)
           ELSE LET back == IF clientConfig.onError = "same" THEN caught
                            ELSE RequestError("Error", "onError")
                IN  /\ made' = Append(made, Came("onError", "returned", back))
                    /\ RequestRejects(thrownAfterOnError(caught, back))
    /\ UNCHANGED <<clientConfig, requestConfig, request, httpResponse>>
    /\ UNCHANGED <<resolverVars, exportVars, retryVars, pageVars, instanceVars,
                   timeoutVars, concurrentVars>>

\* response = await this.config.onResponse(response), then handleResponse
OnResponseSettles ==
    /\ requestPc = "onResponse"
    /\ IF clientConfig.onResponse = "throws"
       THEN LET err == RequestError("Error", "onResponse")
            IN  /\ made' = Append(made, Came("onResponse", "threw", err))
                /\ RequestRejects(err)
                /\ UNCHANGED httpResponse
       ELSE LET back == IF clientConfig.onResponse = "same" THEN httpResponse
                        ELSE Response(200, Leaf, "onResponse")
            IN  /\ httpResponse' = back
                /\ made' = made \o <<Came("onResponse", "returned", back),
                                     Called("handleResponse", back)>>
                /\ requestPc' = "handleResponse"
                /\ UNCHANGED requestPromise
    /\ UNCHANGED <<clientConfig, requestConfig, request>>
    /\ UNCHANGED <<resolverVars, exportVars, retryVars, pageVars, instanceVars,
                   timeoutVars, concurrentVars>>

\* return this.handleResponse(response, config.parseJson ?? true)
HandleResponseSettles ==
    /\ requestPc = "handleResponse"
    /\ LET handled == handleResponse(httpResponse, requestConfig.parseJson)
       IN  IF handled.threw
           THEN /\ made' = Append(made, Came("handleResponse", "threw",
                                             handled.error))
                /\ RequestRejects(handled.error)
           ELSE /\ made' = Append(made, Came("handleResponse", "returned",
                                             handled.value))
                /\ RequestResolves(handled.value)
    /\ UNCHANGED <<clientConfig, requestConfig, request, httpResponse>>
    /\ UNCHANGED <<resolverVars, exportVars, retryVars, pageVars, instanceVars,
                   timeoutVars, concurrentVars>>

RequestInit ==
    /\ document = Null
    /\ ResolverIdle
    /\ ExportsIdle
    /\ RetryIdle
    /\ PageIdle
    /\ RestIdle

RequestNext ==
    \/ CallRequest
    \/ OnRequestSettles
    \/ FetchSettles
    \/ OnErrorSettles
    \/ OnResponseSettles
    \/ HandleResponseSettles

RequestSpec == RequestInit /\ [][RequestNext]_vars

\* where in `made` the call of fn is, and where fn came back in that way
MadeCalls(fn) ==
    {k \in 1..Len(made) : made[k].fn = fn /\ made[k].what = "called"}

CameBack(fn, how) ==
    {k \in 1..Len(made) : made[k].fn = fn /\ made[k].what = how}

(***************************************************************************)
(* C35.  In HttpClient.request the steps happen in a fixed order.  The     *)
(* request is built first; onRequest, when configured, is called next on   *)
(* the built request; fetch is called with the request onRequest returned  *)
(* (the built one without onRequest), and never twice: exactly once in     *)
(* every call that ended, unless onRequest threw; onResponse is called on  *)
(* the fetched response right after fetch resolved, and the status check   *)
(* and body parsing (handleResponse) come only after it returned, on the   *)
(* response it returned; onError is called exactly when fetch rejected,    *)
(* on that error, and the call then rejects with the error onError         *)
(* returned.                                                               *)
(***************************************************************************)
C35_RequestOrder ==
    /\ made # <<>> => made[1] = Came("buildRequest", "returned", buildRequest)
    /\ \A fn \in {"onRequest", "fetch", "onResponse", "onError",
                  "handleResponse"} : Cardinality(MadeCalls(fn)) <= 1
    /\ clientConfig.onRequest # "none" =>
           (made # <<>> => made[2] = Called("onRequest", made[1].arg))
    /\ \A k \in MadeCalls("onRequest") : k = 2
    /\ \A k \in MadeCalls("fetch") :
           made[k - 1] = Came(IF clientConfig.onRequest = "none"
                              THEN "buildRequest" ELSE "onRequest",
                              "returned", made[k].arg)
    /\ \A k \in CameBack("fetch", "returned") :
           /\ k < Len(made)
           /\ clientConfig.onResponse # "none" =>
                  made[k + 1] = Called("onResponse", made[k].arg)
    /\ \A k \in MadeCalls("onResponse") :
           made[k - 1] = Came("fetch", "returned", made[k].arg)
    /\ \A k \in MadeCalls("handleResponse") :
           made[k - 1] = Came(IF clientConfig.onResponse = "none"
                              THEN "fetch" ELSE "onResponse",
                              "returned", made[k].arg)
    /\ \A k \in MadeCalls("onError") :
           made[k - 1] = Came("fetch", "threw", made[k].arg)
    /\ clientConfig.onError # "none" =>
           \A k \in CameBack("fetch", "threw") :
               k < Len(made) /\ made[k + 1] = Called("onError", made[k].arg)
    /\ requestPc = "settled" =>
           /\ CameBack("onRequest", "threw") = {} =>
                  Cardinality(MadeCalls("fetch")) = 1
           /\ \A k \in CameBack("onError", "returned") :
                  /\ requestPromise.state = "rejected"
                  /\ requestPromise.error = made[k].arg

\* fetch rejected, onError was called with the rejection and returned
\* another error, and the call rejected with that one; onRequest had
\* replaced the request that went to fetch
C35_Witness ==
    /\ requestPc = "settled"
    /\ clientConfig.onRequest = "other"
    /\ clientConfig.onError = "other"
    /\ Len(made) = 7
    /\ made[4] = Called("fetch", Request("onRequest"))
    /\ made[6].fn = "onError"
    /\ requestPromise.error = RequestError("Error", "onError")

====
